---- MODULE Spec2Model ----
(***************************************************************************)
(* A model of the command-line flag package guonaihong/flag: the FlagSet   *)
(* registry (NewFlagSet, Var, Opt/OptOpt ... flagVar) and the argument     *)
(* engine (Parse, parseOne, getName, parseNameValue, getFlag, setPosix,    *)
(* setPosixShortOpt, setFlag, setValue) of src/flag.go and src/opt.go.     *)
(*                                                                         *)
(* A Go string is modelled as a sequence of one-character strings, a map   *)
(* as a function whose domain is the set of its keys, a *Flag as the Flag  *)
(* record it points to, and the variables the flags are bound to as one    *)
(* memory "mem" from variable names to values.                             *)
(***************************************************************************)
EXTENDS Integers, Sequences, FiniteSets, TLC

VARIABLES
    f,          \* the FlagSet (tables, args, unkownArgs, ...) and the bound memory
    pc,         \* where the caller is: "ready", "parsing", "done", "exited", "panicked"
    arguments,  \* the argument list handed to the Parse call in progress or ended
    pre,        \* the FlagSet as it was when that Parse call began
    ret,        \* what that Parse call returned (or panicked with)
    prog,       \* which program is running
    reg         \* the registration calls made so far, in order

vars == <<f, pc, arguments, pre, ret, prog, reg>>

----------------------------------------------------------------------------
(* Strings *)

Digits == {"0", "1", "2", "3", "4", "5", "6", "7", "8", "9"}

DigitVal(c) ==
    CASE c = "0" -> 0 [] c = "1" -> 1 [] c = "2" -> 2 [] c = "3" -> 3
      [] c = "4" -> 4 [] c = "5" -> 5 [] c = "6" -> 6 [] c = "7" -> 7
      [] c = "8" -> 8 [] c = "9" -> 9

\* s[i:] of Go, i counted from 0
From(s, i) == SubSeq(s, i + 1, Len(s))

\* s[0:i] of Go
UpTo(s, i) == SubSeq(s, 1, i)

AllDigits(s) == \A i \in 1..Len(s) : s[i] \in Digits

\* the positions (from 0) of byte c in s
Positions(s, c) == {i \in 0..(Len(s) - 1) : s[i + 1] = c}

Min(S) == CHOOSE x \in S : \A y \in S : x <= y

----------------------------------------------------------------------------
(* Errors.  An error value is its kind and the operands of its message;    *)
(* "sentinel" tells the package-level values ErrHelp and ErrVersion from   *)
(* an error made by fmt.Errorf with the same text.                         *)

Nil == [kind |-> "nil", name |-> <<>>, value |-> <<>>, sentinel |-> FALSE]

ErrHelp == [kind |-> "help", name |-> <<>>, value |-> <<>>, sentinel |-> TRUE]

ErrVersion == [kind |-> "version", name |-> <<>>, value |-> <<>>, sentinel |-> TRUE]

\* fmt.Errorf(format, a...): a new error value of that text
Errorf(kind, name, value) ==
    [kind |-> kind, name |-> name, value |-> value, sentinel |-> FALSE]

----------------------------------------------------------------------------
(* Behaviour bits of a flag *)

PosixShort == "PosixShort"

GreedyMode == "GreedyMode"

RegexKeyIsValue == "RegexKeyIsValue"

NotValue == "NotValue"

\* flags ^= bit
Xor(flags, bit) == IF bit \in flags THEN flags \ {bit} ELSE flags \cup {bit}

ContinueOnError == "ContinueOnError"

ExitOnError == "ExitOnError"

PanicOnError == "PanicOnError"

Policies == {ContinueOnError, ExitOnError, PanicOnError}

----------------------------------------------------------------------------
(* Maps *)

EmptyMap == <<>>

Has(m, k) == k \in DOMAIN m

Put(m, k, v) == [x \in (DOMAIN m) \cup {k} |-> IF x = k THEN v ELSE m[x]]

----------------------------------------------------------------------------
(* Value adapters.  A Value is [kind, p]: the adapter type and the name of *)
(* the variable it points to.                                               *)

TrueTexts ==
    { <<"1">>, <<"t">>, <<"T">>, <<"T", "R", "U", "E">>,
      <<"t", "r", "u", "e">>, <<"T", "r", "u", "e">> }

FalseTexts ==
    { <<"0">>, <<"f">>, <<"F">>, <<"F", "A", "L", "S", "E">>,
      <<"f", "a", "l", "s", "e">>, <<"F", "a", "l", "s", "e">> }

\* strconv.ParseBool: (value, err == nil)
ParseBool(s) ==
    IF s \in TrueTexts THEN [v |-> TRUE, ok |-> TRUE]
    ELSE IF s \in FalseTexts THEN [v |-> FALSE, ok |-> TRUE]
    ELSE [v |-> FALSE, ok |-> FALSE]

RECURSIVE DecimalValue(_)
DecimalValue(s) ==
    IF s = <<>> THEN 0
    ELSE 10 * DecimalValue(UpTo(s, Len(s) - 1)) + DigitVal(s[Len(s)])

\* the largest int of bitSize 32
MaxInt32 == 2147483647

\* strconv.ParseInt(s, 10, 32): (value, err == nil)
ParseInt(s) ==
    IF s = <<>> THEN [v |-> 0, ok |-> FALSE]
    ELSE
        LET neg == s[1] = "-"
            body == IF s[1] \in {"+", "-"} THEN Tail(s) ELSE s
        IN  IF body = <<>> \/ ~AllDigits(body) THEN [v |-> 0, ok |-> FALSE]
            ELSE
                LET un == DecimalValue(body)
                IN  IF ~neg /\ un > MaxInt32
                        THEN [v |-> MaxInt32, ok |-> FALSE]
                    ELSE IF neg /\ un - 1 > MaxInt32
                        THEN [v |-> (0 - MaxInt32) - 1, ok |-> FALSE]
                    ELSE [v |-> IF neg THEN 0 - un ELSE un, ok |-> TRUE]

\* a faulty variant of IsBoolFlag: no adapter is taken for a boolean one
IsBoolFlagNever(value) == FALSE

\* boolFlag: the adapters with an IsBoolFlag method (boolValue only)
IsBoolFlag(value) == value.kind = "bool"

\* Value.Set(s) of each adapter: the memory after it, and whether err == nil
ValueSet(mem, value, s) ==
    CASE value.kind = "bool" ->
            LET r == ParseBool(s)
            IN  [mem |-> [mem EXCEPT ![value.p] = r.v], ok |-> r.ok]
      [] value.kind = "int" ->
            LET r == ParseInt(s)
            IN  [mem |-> [mem EXCEPT ![value.p] = r.v], ok |-> r.ok]
      [] value.kind = "string" ->
            [mem |-> [mem EXCEPT ![value.p] = s], ok |-> TRUE]
      [] value.kind = "stringSlice" ->
            [mem |-> [mem EXCEPT ![value.p] = Append(@, s)], ok |-> TRUE]
      [] value.kind = "boolSlice" ->
            LET r == ParseBool(s)
            IN  IF r.ok
                    THEN [mem |-> [mem EXCEPT ![value.p] = Append(@, r.v)], ok |-> TRUE]
                    ELSE [mem |-> mem, ok |-> FALSE]

\* strconv.FormatBool
FormatBool(b) ==
    IF b THEN <<"t", "r", "u", "e">> ELSE <<"f", "a", "l", "s", "e">>

DigitChar(d) ==
    CASE d = 0 -> "0" [] d = 1 -> "1" [] d = 2 -> "2" [] d = 3 -> "3"
      [] d = 4 -> "4" [] d = 5 -> "5" [] d = 6 -> "6" [] d = 7 -> "7"
      [] d = 8 -> "8" [] d = 9 -> "9"

RECURSIVE FormatUint(_)
FormatUint(n) ==
    IF n < 10 THEN <<DigitChar(n)>>
    ELSE FormatUint(n \div 10) \o <<DigitChar(n % 10)>>

\* strconv.Itoa
Itoa(n) == IF n < 0 THEN <<"-">> \o FormatUint(0 - n) ELSE FormatUint(n)

\* json.Marshal of a string: quoted, with '"' and '\' escaped
RECURSIVE Escaped(_)
Escaped(s) ==
    IF s = <<>> THEN <<>>
    ELSE (IF s[1] \in {"\"", "\\"} THEN <<"\\", s[1]>> ELSE <<s[1]>>)
            \o Escaped(Tail(s))

Quoted(s) == <<"\"">> \o Escaped(s) \o <<"\"">>

\* the elements of a JSON array, already rendered, with commas between
RECURSIVE Commas(_)
Commas(texts) ==
    IF texts = <<>> THEN <<>>
    ELSE IF Len(texts) = 1 THEN texts[1]
    ELSE texts[1] \o <<",">> \o Commas(Tail(texts))

\* json.Marshal of a slice; the slice without elements is the nil slice
Marshal(texts) ==
    IF texts = <<>> THEN <<"n", "u", "l", "l">>
    ELSE <<"[">> \o Commas(texts) \o <<"]">>

\* Value.String() of each adapter
ValueString(mem, value) ==
    CASE value.kind = "bool" -> FormatBool(mem[value.p])
      [] value.kind = "int" -> Itoa(mem[value.p])
      [] value.kind = "string" -> mem[value.p]
      [] value.kind = "stringSlice" ->
            Marshal([i \in DOMAIN mem[value.p] |-> Quoted(mem[value.p][i])])
      [] value.kind = "boolSlice" ->
            Marshal([i \in DOMAIN mem[value.p] |-> FormatBool(mem[value.p][i])])

----------------------------------------------------------------------------
(* Flags *)

\* the nil *Flag
NilFlag ==
    [Name |-> <<>>, Value |-> [kind |-> "nil", p |-> ""], flags |-> {},
     pointer |-> "", matchValue |-> <<>>, Regex |-> <<>>, Short |-> <<>>,
     Long |-> <<>>, isOptOpt |-> FALSE]

\* &Flag{Name: name, Value: value}
MkFlag(name, value) == [NilFlag EXCEPT !.Name = name, !.Value = value]

----------------------------------------------------------------------------
(* Output: what the FlagSet wrote to its sink, in order *)

Emit(fs, what) == [fs EXCEPT !.out = Append(@, what)]

\* f.usage(): the usage text
usage(fs) == Emit(fs, "usage")

\* f.printVersion(): the version line
printVersion(fs) == Emit(fs, "version")

\* f.failf: the FlagSet after it has written the error message and then the
\* usage text; what it returns is err itself
failf(fs, err) == usage(Emit(fs, "error"))

----------------------------------------------------------------------------
(* Token classification and lookup *)

\* a faulty variant of parseNameValue: the split is at the last '='
parseNameValueLast(name) ==
    LET eqs == {i \in Positions(name, "=") : i >= 1}
    IN  IF eqs = {} THEN [name |-> name, hasValue |-> FALSE, value |-> <<>>]
        ELSE LET i == CHOOSE x \in eqs : \A y \in eqs : y <= x
             IN  [name |-> UpTo(name, i), hasValue |-> TRUE, value |-> From(name, i + 1)]

\* parseNameValue: split at the first '=' that is not the first byte
parseNameValue(name) ==
    LET eqs == {i \in Positions(name, "=") : i >= 1}
    IN  IF eqs = {} THEN [name |-> name, hasValue |-> FALSE, value |-> <<>>]
        ELSE LET i == Min(eqs)
             IN  [name |-> UpTo(name, i), hasValue |-> TRUE, value |-> From(name, i + 1)]

\* the pattern of the tail example, `^\d+$`
DigitsRegex == <<"^", "\\", "d", "+", "$">>

\* regexp.Match(pattern, name) for the patterns the model registers: the
\* digits pattern, and the empty pattern, which matches every text
MatchRegex(pattern, name) ==
    IF pattern = DigitsRegex THEN name # <<>> /\ AllDigits(name)
    ELSE pattern = <<>>

\* FlagSet.getFlag.  The pattern table is a Go map walked in no fixed order;
\* the registries of this model never hold two patterns that match one text,
\* so the walk has one outcome.
getFlag(fs, name) ==
    IF name = <<"h", "e", "l", "p">> \/ name = <<"h">>
        THEN [f |-> usage(fs), flag |-> NilFlag, seen |-> FALSE, err |-> ErrHelp]
    ELSE IF name = <<"v", "e", "r", "s", "i", "o", "n">> \/ name = <<"V">>
        THEN [f |-> printVersion(fs), flag |-> NilFlag, seen |-> FALSE, err |-> ErrVersion]
    ELSE IF Has(fs.formal, name)
        THEN [f |-> fs, flag |-> fs.formal[name], seen |-> TRUE, err |-> Nil]
    ELSE IF Has(fs.shortLong, name)
        THEN [f |-> fs, flag |-> fs.shortLong[name], seen |-> TRUE, err |-> Nil]
    ELSE
        LET matched == {k \in DOMAIN fs.regex : MatchRegex(k, name)}
        IN  IF matched # {}
                THEN [f |-> fs, flag |-> fs.regex[CHOOSE k \in matched : TRUE],
                      seen |-> TRUE, err |-> Nil]
                ELSE [f |-> fs, flag |-> NilFlag, seen |-> FALSE,
                      err |-> Errorf("undefined", name, <<>>)]

\* a faulty variant of getName: outside the greedy loop a positional
\* argument is recorded and left in f.args
getNameKeeps(fs, flags) ==
    IF Len(fs.args) > 0 /\ (Len(fs.args[1]) < 2 \/ fs.args[1][1] # "-")
       /\ GreedyMode \notin flags
        THEN [f |-> [fs EXCEPT !.unkownArgs = Append(@, fs.args[1])],
              next |-> FALSE, seen |-> TRUE, err |-> Nil,
              name |-> fs.args[1], numMinuses |-> 0]
    ELSE [f |-> fs, next |-> FALSE, seen |-> FALSE, err |-> Nil,
          name |-> <<>>, numMinuses |-> 0]

\* FlagSet.getName: classify f.args[0].  name and numMinuses are the values
\* the caller's variables hold afterwards (the caller set both to "" and 0).
getName(fs, flags) ==
    IF Len(fs.args) = 0
        THEN [f |-> fs, next |-> FALSE, seen |-> FALSE, err |-> Nil,
              name |-> <<>>, numMinuses |-> 0]
    ELSE
        LET s == fs.args[1]
        IN  IF Len(s) < 2 \/ s[1] # "-"
                THEN [f |-> [fs EXCEPT !.unkownArgs =
                                 IF GreedyMode \notin flags THEN Append(@, s) ELSE @,
                             !.args = Tail(@)],
                      next |-> FALSE, seen |-> TRUE, err |-> Nil,
                      name |-> s, numMinuses |-> 0]
            ELSE
                LET numMinuses == IF s[2] = "-" THEN 2 ELSE 1
                    name == From(s, numMinuses)
                IN  IF s[2] = "-" /\ Len(s) = 2
                        THEN [f |-> [fs EXCEPT !.args = Tail(@)],
                              next |-> FALSE, seen |-> FALSE, err |-> Nil,
                              name |-> <<>>, numMinuses |-> 2]
                    ELSE IF Len(name) = 0 \/ name[1] = "-" \/ name[1] = "="
                        THEN [f |-> failf(fs, Errorf("badsyntax", s, <<>>)),
                              next |-> FALSE, seen |-> FALSE,
                              err |-> Errorf("badsyntax", s, <<>>),
                              name |-> name, numMinuses |-> numMinuses]
                    ELSE [f |-> fs, next |-> TRUE, seen |-> TRUE, err |-> Nil,
                          name |-> name, numMinuses |-> numMinuses]

----------------------------------------------------------------------------
(* Applying a value *)

\* one call of flag.Value.Set(s): the call is logged in fs.sets
CallSet(fs, flag, s) ==
    LET r == ValueSet(fs.mem, flag.Value, s)
    IN  [f |-> [fs EXCEPT !.mem = r.mem,
                          !.sets = Append(@, [p |-> flag.Value.p, text |-> s])],
         ok |-> r.ok]

\* the end of each branch of setValue: r is what the call of Set gave, err
\* the error the branch reports when Set refused the text
setValueEnd(r, err) ==
    IF ~r.ok THEN [f |-> failf(r.f, err), seen |-> FALSE, err |-> err]
    ELSE [f |-> r.f, seen |-> TRUE, err |-> Nil]

\* a faulty variant of setValue: the fixed value of a MatchVar flag is not
\* looked at, the text is handed to Set
setValueNoMatch(fs, flag, name, hasValue, value) ==
    setValueEnd(CallSet(fs, flag, value), Errorf("invalid", name, value))

\* a faulty variant of setValue: a boolean slice is treated as any flag
\* that needs a value, which might be the next argument
setValueNoSlice(fs, flag, name, hasValue, value) ==
    LET take == ~hasValue /\ Len(fs.args) > 0
        hasValue1 == hasValue \/ take
        value1 == IF take THEN fs.args[1] ELSE value
        fs1 == IF take THEN [fs EXCEPT !.args = Tail(@)] ELSE fs
    IN  IF ~hasValue1
            THEN [f |-> failf(fs1, Errorf("needarg", name, <<>>)),
                  seen |-> FALSE, err |-> Errorf("needarg", name, <<>>)]
            ELSE setValueEnd(CallSet(fs1, flag, value1),
                             Errorf("invalid", name, value1))

\* FlagSet.setValue
setValue(fs, flag, name, hasValue, value) ==
    IF NotValue \in flag.flags
        THEN [f |-> [fs EXCEPT !.mem = [@ EXCEPT ![flag.pointer] = flag.matchValue[1]],
                               !.sets = Append(@, [p |-> flag.pointer, text |-> <<>>])],
              seen |-> TRUE, err |-> Nil]
    ELSE IF IsBoolFlag(flag.Value)
        THEN IF hasValue
                THEN setValueEnd(CallSet(fs, flag, value),
                                 Errorf("invalidbool", name, value))
                ELSE setValueEnd(CallSet(fs, flag, <<"t", "r", "u", "e">>),
                                 Errorf("invalidboolflag", name, <<>>))
    ELSE IF flag.Value.kind = "boolSlice"
        THEN setValueEnd(CallSet(fs, flag, <<"t", "r", "u", "e">>),
                         Errorf("invalidboolflag", name, <<>>))
    ELSE
        \* It must have a value, which might be the next argument.
        LET take == ~hasValue /\ Len(fs.args) > 0
            hasValue1 == hasValue \/ take
            value1 == IF take THEN fs.args[1] ELSE value
            fs1 == IF take THEN [fs EXCEPT !.args = Tail(@)] ELSE fs
        IN  IF ~hasValue1
                THEN [f |-> failf(fs1, Errorf("needarg", name, <<>>)),
                      seen |-> FALSE, err |-> Errorf("needarg", name, <<>>)]
                ELSE setValueEnd(CallSet(fs1, flag, value1),
                                 Errorf("invalid", name, value1))

\* a faulty variant of setFlagEnd: the flag is recorded in the primary table
setFlagEndFormal(r, flag, name) ==
    IF r.err # Nil THEN r
    ELSE [f |-> [r.f EXCEPT !.formal = Put(@, name, flag)],
          seen |-> TRUE, err |-> Nil]

\* the end of setFlag: r is what setValue gave
setFlagEnd(r, flag, name) ==
    IF r.err # Nil THEN r
    ELSE [f |-> [r.f EXCEPT !.actual = Put(@, name, flag)],
          seen |-> TRUE, err |-> Nil]

\* FlagSet.setFlag
setFlag(fs, flag, name, hasValue, value) ==
    setFlagEnd(setValue(fs, flag, name, hasValue, value), flag, name)

----------------------------------------------------------------------------
(* POSIX short-option clusters *)

RECURSIVE posixLoop(_, _, _, _)
RECURSIVE posixFlag(_, _, _, _)
RECURSIVE posixSet(_, _, _, _, _, _)

\* a faulty variant of posixSet: the scan ends at the first flag it sets
posixSetFirst(r, name, i, count, isBool, hasValue) ==
    IF r.err # Nil
        THEN [f |-> r.f, next |-> FALSE, seen |-> r.seen, err |-> r.err]
    ELSE [f |-> r.f, next |-> FALSE, seen |-> TRUE, err |-> Nil]

\* the loop of setPosixShortOpt after its call of setFlag, which gave r
posixSet(r, name, i, count, isBool, hasValue) ==
    IF r.err # Nil
        THEN [f |-> r.f, next |-> FALSE, seen |-> r.seen, err |-> r.err]
    ELSE IF ~isBool /\ ~hasValue
        THEN [f |-> r.f, next |-> FALSE, seen |-> TRUE, err |-> Nil]
    ELSE posixLoop(r.f, name, i + 1, count + 1)

\* the loop of setPosixShortOpt after its call of getFlag, which gave g
posixFlag(g, name, i, count) ==
    IF g.err # Nil THEN posixLoop(g.f, name, i + 1, count)
    ELSE IF PosixShort \notin g.flag.flags
        THEN posixLoop(g.f, name, i + 1, count)
    ELSE
        LET isBool == IsBoolFlag(g.flag.Value)
            glued == ~isBool /\ i + 1 # Len(name)
            keyIsValue == RegexKeyIsValue \in g.flag.flags
            hasValue == glued \/ keyIsValue
            value == IF keyIsValue THEN From(name, i)
                     ELSE IF glued THEN From(name, i + 1)
                     ELSE <<>>
        IN  posixSet(setFlag(g.f, g.flag, <<name[i + 1]>>, hasValue, value),
                     name, i, count, isBool, hasValue)

\* a faulty variant of posixLoop: the count of the flags set is not looked at
posixLoopNoCount(fs, name, i, count) ==
    IF i >= Len(name)
        THEN [f |-> fs, next |-> TRUE, seen |-> TRUE, err |-> Nil]
    ELSE posixFlag(getFlag(fs, <<name[i + 1]>>), name, i, count)

\* the loop of setPosixShortOpt, from byte i (counted from 0) on
posixLoop(fs, name, i, count) ==
    IF i >= Len(name)
        THEN IF count > 0
                THEN [f |-> fs, next |-> FALSE, seen |-> TRUE, err |-> Nil]
                ELSE [f |-> fs, next |-> TRUE, seen |-> TRUE, err |-> Nil]
    ELSE posixFlag(getFlag(fs, <<name[i + 1]>>), name, i, count)

\* FlagSet.setPosixShortOpt
setPosixShortOpt(fs, numMinuses, name) == posixLoop(fs, name, 0, 0)

\* the end of setPosix: r is what the scan of the cluster gave
setPosixEnd(r, err) ==
    IF ~r.next THEN r
    ELSE [f |-> failf(r.f, Errorf(err.kind, err.name, err.value)),
          next |-> FALSE, seen |-> FALSE,
          err |-> Errorf(err.kind, err.name, err.value)]

\* FlagSet.setPosix
setPosix(fs, seen, err, numMinuses, name) ==
    IF err = ErrHelp
        THEN [f |-> fs, next |-> FALSE, seen |-> FALSE, err |-> err]
    ELSE IF ~fs.openPosixShort
        THEN [f |-> fs, next |-> FALSE, seen |-> seen, err |-> err]
    ELSE IF numMinuses = 1
        THEN setPosixEnd(setPosixShortOpt(fs, numMinuses, name), err)
    ELSE setPosixEnd([f |-> fs, next |-> TRUE, seen |-> seen, err |-> err], err)

----------------------------------------------------------------------------
(* parseOne *)

\* a nil *Flag dereferenced: the run-time panic
NilDeref == Errorf("nil pointer dereference", <<>>, <<>>)

RECURSIVE try(_, _, _, _, _)
RECURSIVE greedyLoop(_, _, _, _, _)
RECURSIVE greedySet(_, _)
RECURSIVE greedyName(_, _)
RECURSIVE greedyFlag(_, _, _)
RECURSIVE greedyPosix(_, _, _)

\* the greedy loop after its call of setPosix, which gave sp
greedyPosix(sp, l, nv) ==
    IF ~sp.next THEN [f |-> sp.f, seen |-> sp.seen, err |-> sp.err]
    ELSE try([sp.f EXCEPT !.args = Tail(@)], l.flag, nv.name, nv.hasValue, nv.value)

\* the greedy loop after its call of getFlag, which gave l
greedyFlag(l, numMinuses, nv) ==
    IF l.err # Nil
        THEN greedyPosix(setPosix(l.f, l.seen, l.err, numMinuses, nv.name), l, nv)
    ELSE try([l.f EXCEPT !.args = Tail(@)], l.flag, nv.name, nv.hasValue, nv.value)

\* the greedy loop after its call of getName, which gave g
greedyName(g, flag) ==
    IF ~g.seen THEN [f |-> g.f, seen |-> g.seen, err |-> g.err]
    ELSE IF g.next
        THEN greedyFlag(getFlag(g.f, parseNameValue(g.name).name), g.numMinuses,
                        parseNameValue(g.name))
    ELSE greedyLoop(g.f, flag, g.name, TRUE, g.name)

\* the greedy loop after its call of setFlag, which gave r
greedySet(r, flag) ==
    IF r.err # Nil THEN r
    ELSE greedyName(getName(r.f, {GreedyMode}), flag)

\* the greedy loop of parseOne, from its test on, and what follows the loop
greedyLoop(fs, flag, name, hasValue, value) ==
    IF Len(fs.args) = 0
        THEN LET keyIsValue == RegexKeyIsValue \in flag.flags
             IN  setFlag(fs, flag, name, hasValue \/ keyIsValue,
                         IF keyIsValue THEN name ELSE value)
    ELSE greedySet(setFlag(fs, flag, <<>>, hasValue, value), flag)

\* parseOne from its label "try" on
try(fs, flag, name, hasValue, value) ==
    IF flag = NilFlag
        THEN [f |-> fs, seen |-> FALSE, err |-> NilDeref]
    ELSE IF GreedyMode \in flag.flags
        THEN greedyLoop(fs, flag, name, hasValue, value)
    ELSE
        LET keyIsValue == RegexKeyIsValue \in flag.flags
        IN  setFlag(fs, flag, name, hasValue \/ keyIsValue,
                    IF keyIsValue THEN name ELSE value)

\* parseOne after its call of setPosix, which gave sp
parseOnePosix(sp, l, nv) ==
    IF ~sp.next THEN [f |-> sp.f, seen |-> sp.seen, err |-> sp.err]
    ELSE try(sp.f, l.flag, nv.name, nv.hasValue, nv.value)

\* parseOne after its call of getFlag, which gave l
parseOneFlag(l, numMinuses, nv) ==
    IF l.err # Nil
        THEN parseOnePosix(setPosix(l.f, l.seen, l.err, numMinuses, nv.name), l, nv)
    ELSE try(l.f, l.flag, nv.name, nv.hasValue, nv.value)

\* parseOne after its call of getName, which gave g
parseOneName(g) ==
    IF ~g.next THEN [f |-> g.f, seen |-> g.seen, err |-> g.err]
    ELSE parseOneFlag(getFlag([g.f EXCEPT !.args = Tail(@)],
                              parseNameValue(g.name).name),
                      g.numMinuses, parseNameValue(g.name))

\* FlagSet.parseOne: (the FlagSet after it, seen, err)
parseOne(fs) == parseOneName(getName(fs, {}))

----------------------------------------------------------------------------
(* Registration *)

\* strings.Split(s, sep) for a one-byte separator
RECURSIVE Split(_, _)
Split(s, sep) ==
    LET ps == Positions(s, sep)
    IN  IF ps = {} THEN <<s>>
        ELSE LET i == Min(ps)
             IN  <<UpTo(s, i)>> \o Split(From(s, i + 1), sep)

\* strings.TrimSpace
RECURSIVE TrimSpace(_)
TrimSpace(s) ==
    IF s # <<>> /\ s[1] = " " THEN TrimSpace(Tail(s))
    ELSE IF s # <<>> /\ s[Len(s)] = " " THEN TrimSpace(UpTo(s, Len(s) - 1))
    ELSE s

\* sort.Slice by length: for the short lists of names the library's sort is
\* an insertion sort, which keeps names of equal length in their order
RECURSIVE SortByLen(_)
SortByLen(names) ==
    IF Len(names) <= 1 THEN names
    ELSE
        LET sorted == SortByLen(UpTo(names, Len(names) - 1))
            x == names[Len(names)]
            k == Cardinality({j \in 1..Len(sorted) : Len(sorted[j]) <= Len(x)})
        IN  UpTo(sorted, k) \o <<x>> \o From(sorted, k)

\* strings.Join(names, ", ")
RECURSIVE Join(_)
Join(names) ==
    IF names = <<>> THEN <<>>
    ELSE IF Len(names) = 1 THEN names[1]
    ELSE names[1] \o <<",", " ">> \o Join(Tail(names))

\* newName: (the joined name, the names, whether the name held a comma)
newName(name) ==
    IF Positions(name, ",") = {}
        THEN [name |-> name, names |-> <<>>, ok |-> FALSE]
    ELSE
        LET parts == Split(name, ",")
            names == SortByLen([k \in 1..Len(parts) |-> TrimSpace(parts[k])])
        IN  [name |-> Join(names), names |-> names, ok |-> TRUE]

ReservedNames ==
    { <<"h">>, <<"h", "e", "l", "p">>, <<"V">>, <<"v", "e", "r", "s", "i", "o", "n">> }

\* FlagSet.alreadythereError: returns for a reserved name, else writes the
\* "flag redefined" message and panics with it
alreadythereError(fs, name) ==
    IF name \in ReservedNames
        THEN [f |-> fs, panicked |-> FALSE, msg |-> ""]
        ELSE [f |-> Emit(fs, "flag redefined"), panicked |-> TRUE,
              msg |-> "flag redefined"]

\* the loop of FlagSet.Var over the names of a comma-separated name
RECURSIVE varNames(_, _, _, _)
varNames(fs, names, value, i) ==
    IF i > Len(names) THEN [f |-> fs, panicked |-> FALSE, msg |-> ""]
    ELSE
        LET v == names[i]
            a == IF Has(fs.shortLong, v) THEN alreadythereError(fs, v)
                 ELSE [f |-> fs, panicked |-> FALSE, msg |-> ""]
        IN  IF a.panicked THEN a
            ELSE varNames([a.f EXCEPT !.shortLong = Put(@, v, MkFlag(v, value))],
                          names, value, i + 1)

\* FlagSet.Var
Var(fs, value, name) ==
    LET n == newName(name)
        flag == MkFlag(n.name, value)
        r == IF n.ok THEN varNames(fs, n.names, value, 1)
             ELSE [f |-> fs, panicked |-> FALSE, msg |-> ""]
    IN  IF r.panicked THEN r
        ELSE
            LET a == IF Has(r.f.formal, n.name) THEN alreadythereError(r.f, n.name)
                     ELSE [f |-> r.f, panicked |-> FALSE, msg |-> ""]
            IN  IF a.panicked THEN a
                ELSE [f |-> [a.f EXCEPT !.formal = Put(@, n.name, flag)],
                      panicked |-> FALSE, msg |-> ""]

\* FlagSet.setNamesToMap on the table named m ("regex" or "shortLong")
RECURSIVE setNamesToMap(_, _, _, _, _)
setNamesToMap(fs, m, names, flag, i) ==
    IF i > Len(names) THEN [f |-> fs, panicked |-> FALSE, msg |-> ""]
    ELSE
        LET v == names[i]
            a == IF Has(fs[m], v) THEN alreadythereError(fs, v)
                 ELSE [f |-> fs, panicked |-> FALSE, msg |-> ""]
        IN  IF a.panicked THEN a
            ELSE setNamesToMap([a.f EXCEPT ![m] = Put(@, v, [flag EXCEPT !.Name = v])],
                               m, names, flag, i + 1)

\* the end of FlagSet.flagVar: the entry of the primary table
flagVarFormal(fs, flag, name) ==
    LET a == IF Has(fs.formal, name) THEN alreadythereError(fs, name)
             ELSE [f |-> fs, panicked |-> FALSE, msg |-> ""]
    IN  IF a.panicked THEN a
        ELSE [f |-> [a.f EXCEPT !.formal = Put(@, name, [flag EXCEPT !.Name = name])],
              panicked |-> FALSE, msg |-> ""]

\* FlagSet.flagVar
flagVar(fs, flag) ==
    IF PosixShort \in flag.flags /\ GreedyMode \in flag.flags
        THEN [f |-> fs, panicked |-> TRUE,
              msg |-> "Cannot set both PosixShort and GreedyMode"]
    ELSE IF flag.isOptOpt
        THEN
            LET r1 == setNamesToMap(fs, "regex", <<flag.Regex>>, flag, 1)
                flag1 == [flag EXCEPT !.flags = Xor(@, RegexKeyIsValue)]
            IN  IF r1.panicked THEN r1
                ELSE
                    LET r2 == setNamesToMap(r1.f, "shortLong", flag.Short, flag1, 1)
                    IN  IF r2.panicked THEN r2
                        ELSE
                            LET r3 == setNamesToMap(r2.f, "shortLong", flag.Long, flag1, 1)
                            IN  IF r3.panicked THEN r3
                                ELSE flagVarFormal(r3.f, flag1, flag.Name)
    ELSE
        LET n == newName(flag.Name)
            r == IF n.ok THEN setNamesToMap(fs, "shortLong", n.names, flag, 1)
                 ELSE [f |-> fs, panicked |-> FALSE, msg |-> ""]
        IN  IF r.panicked THEN r
            ELSE flagVarFormal(r.f, flag, n.name)

----------------------------------------------------------------------------
(* The registration calls.  A call is a record                              *)
(*   [api, name, Regex, Short, Long, bits, kind, p, def, match]:            *)
(*   api "Var"    - FlagSet.Bool / String / Int / ... (name, def), ending   *)
(*                  in FlagSet.Var;                                         *)
(*   api "Opt"    - FlagSet.Opt(name).Flags(bits).NewX(def);                *)
(*   api "OptOpt" - FlagSet.OptOpt(Flag{Regex, Short, Long}).Flags(bits)    *)
(*                  .NewX(def).                                             *)
(*   api "MatchVar" - FlagSet.Opt(name).Flags(bits).MatchVar(&p, m).        *)
(* kind is the adapter type X, p names the variable the flag is bound to   *)
(* and def is its default value; for MatchVar, def is the value the        *)
(* program's variable holds before the call and match holds m.             *)

Call(api, name, bits, kind, p, def) ==
    [api |-> api, name |-> name, Regex |-> <<>>, Short |-> <<>>, Long |-> <<>>,
     bits |-> bits, kind |-> kind, p |-> p, def |-> def, match |-> <<>>]

CallOptOpt(regex, short, long, bits, kind, p, def) ==
    [api |-> "OptOpt", name |-> <<>>, Regex |-> regex, Short |-> short,
     Long |-> long, bits |-> bits, kind |-> kind, p |-> p, def |-> def,
     match |-> <<>>]

CallMatchVar(name, bits, kind, p, def, m) ==
    [Call("MatchVar", name, bits, kind, p, def) EXCEPT !.match = <<m>>]

\* newBoolValue, newStringValue, ...: *p = val
newValue(fs, c) == [fs EXCEPT !.mem = Put(@, c.p, c.def)]

\* FlagSet.OptOpt: the flag it returns
OptOpt(c) ==
    LET parts == (IF Len(c.Regex) > 0 THEN <<c.Regex>> ELSE <<>>) \o c.Short \o c.Long
        buf == Join(parts)
    IN  [NilFlag EXCEPT !.Regex = c.Regex, !.Short = c.Short, !.Long = c.Long,
                        !.isOptOpt = Len(buf) > 0, !.Name = buf]

\* FlagSet.Opt: the flag it returns
Opt(name) == [NilFlag EXCEPT !.Name = name]

\* Flag.Flags: the FlagSet after it (the flag's bits are c.bits)
Flags(fs, bits) ==
    IF PosixShort \in bits THEN [fs EXCEPT !.openPosixShort = TRUE] ELSE fs

\* Flag.MatchVar(p, matchValue) on the flag that Opt and Flags gave, the
\* variable p being in the memory: setVar makes the adapter with the value
\* of *p as its default.  The types of *p and of matchValue agree in every
\* call of this model, so matchCheckValue does not panic.
MatchVar(fs, flag, c) ==
    flagVar(newValue(fs, [c EXCEPT !.def = fs.mem[c.p]]),
            [flag EXCEPT !.flags = @ \cup {NotValue},
                         !.pointer = c.p,
                         !.matchValue = c.match,
                         !.Value = [kind |-> c.kind, p |-> c.p]])

\* one registration call, whole
Register(fs, c) ==
    IF c.api = "Var"
        THEN Var(newValue(fs, c), [kind |-> c.kind, p |-> c.p], c.name)
    ELSE IF c.api = "MatchVar"
        THEN MatchVar(Flags([fs EXCEPT !.mem = Put(@, c.p, c.def)], c.bits),
                      [Opt(c.name) EXCEPT !.flags = c.bits], c)
    ELSE
        LET flag0 == IF c.api = "OptOpt" THEN OptOpt(c) ELSE Opt(c.name)
            fs1 == IF c.bits # {} THEN Flags(fs, c.bits) ELSE fs
            flag1 == [flag0 EXCEPT !.flags = c.bits,
                                   !.Value = [kind |-> c.kind, p |-> c.p]]
        IN  flagVar(newValue(fs1, c), flag1)

N_h_help == <<"h", ",", " ", "h", "e", "l", "p">>

N_V_version == <<"V", ",", " ", "v", "e", "r", "s", "i", "o", "n">>

\* FlagSet.generatedOpt
generatedOpt(fs) ==
    LET r == Register(fs, Call("Var", N_h_help, {}, "bool", "help", FALSE))
    IN  Register(r.f, Call("Var", N_V_version, {}, "bool", "version", FALSE)).f

\* NewFlagSet(name, errorHandling)
NewFlagSet(errorHandling) ==
    generatedOpt(
        [errorHandling |-> errorHandling, parsed |-> FALSE,
         actual |-> EmptyMap, formal |-> EmptyMap, shortLong |-> EmptyMap,
         regex |-> EmptyMap, args |-> <<>>, unkownArgs |-> <<>>,
         openPosixShort |-> FALSE, mem |-> EmptyMap, out |-> <<>>, sets |-> <<>>,
         calls |-> 0])

\* a sequence of registration calls, ending at the first that panics
RECURSIVE RegisterAll(_, _)
RegisterAll(fs, cs) ==
    IF cs = <<>> THEN [f |-> fs, panicked |-> FALSE, msg |-> ""]
    ELSE LET r == Register(fs, Head(cs))
         IN  IF r.panicked THEN r ELSE RegisterAll(r.f, Tail(cs))

----------------------------------------------------------------------------
(* Parse *)

\* a faulty variant of deferred: the positional arguments met are dropped
deferredDropped(fs) == fs

\* the deferred function of Parse: f.args = append(f.unkownArgs, f.args...)
deferred(fs) == [fs EXCEPT !.args = fs.unkownArgs \o fs.args]

\* a faulty variant of parseTurnEnd: Parse returns the error under every policy
parseTurnEndReturns(r, errorHandling) ==
    IF r.seen THEN [f |-> r.f, pc |-> "parsing", ret |-> Nil]
    ELSE [f |-> deferred(r.f), pc |-> "done", ret |-> r.err]

\* the loop of FlagSet.Parse after its call of parseOne, which gave r: the
\* FlagSet then, where the caller is then, and what Parse returned if it ended
parseTurnEnd(r, errorHandling) ==
    IF r.seen THEN [f |-> r.f, pc |-> "parsing", ret |-> Nil]
    ELSE IF r.err = Nil THEN [f |-> deferred(r.f), pc |-> "done", ret |-> Nil]
    ELSE IF errorHandling = ContinueOnError
        THEN [f |-> deferred(r.f), pc |-> "done", ret |-> r.err]
    ELSE IF errorHandling = ExitOnError
        THEN [f |-> r.f, pc |-> "exited", ret |-> r.err]
    ELSE [f |-> deferred(r.f), pc |-> "panicked", ret |-> r.err]

\* one turn of the loop of FlagSet.Parse
parseTurn(fs) == parseTurnEnd(parseOne(fs), fs.errorHandling)

\* the start of FlagSet.Parse; calls counts the calls of Parse
parseStart(fs, args) ==
    [fs EXCEPT !.parsed = TRUE, !.args = args, !.calls = @ + 1]

RECURSIVE parseLoop(_)
RECURSIVE parseLoopEnd(_)

parseLoopEnd(t) == IF t.pc = "parsing" THEN parseLoop(t.f) ELSE t

\* the loop of FlagSet.Parse, whole
parseLoop(fs) == parseLoopEnd(parseTurn(fs))

\* FlagSet.Parse(arguments), whole
Parse(fs, args) == parseLoop(parseStart(fs, args))

----------------------------------------------------------------------------
(* The programs: the FlagSets of the package's tests and examples, with    *)
(* short names, and the tokens their command lines are made of.            *)

MaxArgs == 2

MaxArgsCluster == 2

MaxArgsGreedy == 4

MaxArgsAlias == 3

\* TestOptParse: plain flags, no POSIX mode
RegsParse ==
    << Call("Opt", <<"b">>, {}, "bool", "b", FALSE),
       Call("Opt", <<"s">>, {}, "string", "s", <<"d">>),
       Call("Opt", <<"i">>, {}, "int", "i", 0) >>

TokensParse ==
    { <<"-", "b">>, <<"-", "-", "b">>,
      <<"-", "b", "=", "f", "a", "l", "s", "e">>, <<"-", "b", "=", "x">>,
      <<"-", "s">>, <<"-", "-", "s">>, <<"-", "s", "=", "x">>,
      <<"-", "s", "=", "=", "x">>, <<"-", "s", "=">>,
      <<"-", "i">>, <<"-", "i", "=", "4">>, <<"-", "i", "=", "x">>,
      <<>>, <<"x">>, <<"=", "x">>, <<"x", "=", "y">>, <<"-">>, <<"-", "-">>,
      <<"4">>, <<"-", "4">>, <<"-", "z">>, <<"-", "=", "x">> }

\* TestOptPosixShortBool: boolean flags that may be clustered
RegsCat ==
    << Call("Opt", <<"a">>, {PosixShort}, "bool", "a", FALSE),
       Call("Opt", <<"b">>, {PosixShort}, "bool", "b", FALSE),
       Call("Opt", <<"c">>, {PosixShort}, "bool", "c", FALSE) >>

\* every text of 1 to n bytes over the set of bytes A
Words(A, n) == UNION {[1..k -> A] : k \in 1..n}

TokensCat ==
    { <<"-">> \o w : w \in Words({"a", "b", "c"}, 3) }
        \cup { <<"-", "z">>, <<"-", "z", "z">>, <<"-", "a", "z">>, <<"-", "z", "b">>,
               <<"-", "-", "a", "b">>, <<"-", "-", "z">>, <<"-", "-", "a">>,
               <<"-", "a", "b", "=", "x">>, <<"x">> }

\* TestOptPosixShortString: a boolean and a string flag, both cluster-eligible
RegsGrep ==
    << Call("Opt", <<"i">>, {PosixShort}, "bool", "i", FALSE),
       Call("Opt", <<"A">>, {PosixShort}, "string", "A", <<>>) >>

TokensGrep ==
    { <<"-", "i">>, <<"-", "A">>, <<"-", "i", "A">>, <<"-", "A", "i">>,
      <<"-", "A", "5">>, <<"-", "i", "A", "5">>, <<"-", "A", "A">>,
      <<"-", "A", "5", "A", "i">>, <<"-", "z", "A">>, <<"-", "z", "i">>,
      <<"-", "z", "5">>, <<"5">>, <<"i">>, <<"-", "-", "i", "A">> }

\* TestOptOpt: the numeric pattern of tail, with aliases n and ll
RegsTail ==
    << CallOptOpt(DigitsRegex, << <<"n">> >>, << <<"l", "l">> >>,
                  {RegexKeyIsValue, PosixShort}, "int", "lines", 0) >>

TokensTail ==
    { <<"-", "4">>, <<"-", "4", "2">>, <<"-", "n">>, <<"-", "n", "4">>,
      <<"-", "n", "4", "2">>, <<"-", "n", "+", "4">>, <<"-", "n", "-", "4">>,
      <<"-", "-", "n">>, <<"-", "l", "l">>, <<"-", "n", "=", "4">>,
      <<"4">>, <<"4", "2">>, <<"-", "z">>, <<"x">> }

\* TestOptGreedyMode and TestOptGreedyMode2: a greedy slice flag
RegsCurl ==
    << Call("Opt", <<"H">>, {GreedyMode}, "stringSlice", "H", <<>>),
       Call("Opt", <<"u">>, {}, "string", "u", <<>>),
       Call("Opt", <<"c">>, {PosixShort}, "bool", "c", FALSE),
       Call("Opt", <<"v">>, {PosixShort}, "bool", "v", FALSE) >>

TokensCurl ==
    { <<"-", "H">>, <<"-", "u">>, <<"-", "c", "v">>, <<"x">>, <<"y">>,
      <<"-", "-">>, <<"-", "z">> }

\* TestOptHelp: one cluster-eligible boolean flag, and requests for help and
\* for the version, alone and inside a cluster
RegsHelp ==
    << Call("Opt", <<"T", ",", " ", "s", "h", "o", "w", "-", "t", "a", "b", "s">>,
            {PosixShort}, "bool", "T", FALSE) >>

TokensHelp ==
    { <<"-", "T">>, <<"x">>,
      <<"-", "h">>, <<"-", "-", "h">>, <<"-", "h", "e", "l", "p">>,
      <<"-", "-", "h", "e", "l", "p">>, <<"-", "T", "h">>, <<"-", "h", "T">>,
      <<"-", "V">>, <<"-", "-", "V">>, <<"-", "v", "e", "r", "s", "i", "o", "n">>,
      <<"-", "-", "v", "e", "r", "s", "i", "o", "n">>, <<"-", "T", "V">>,
      <<"-", "z">> }

\* the same requests on a FlagSet without POSIX mode
RegsVer ==
    << Call("Opt", <<"b">>, {}, "bool", "b", FALSE) >>

TokensVer ==
    { <<"-", "b">>, <<"x">>,
      <<"-", "h">>, <<"-", "-", "h">>, <<"-", "h", "e", "l", "p">>,
      <<"-", "-", "h", "e", "l", "p">>,
      <<"-", "V">>, <<"-", "-", "V">>, <<"-", "v", "e", "r", "s", "i", "o", "n">>,
      <<"-", "-", "v", "e", "r", "s", "i", "o", "n">>,
      <<"-", "z">>, <<"-", "b", "=", "x">> }

\* the README example of slices and aliases, and testOptBoolSlice1: a
\* string, a string slice and a boolean slice, each under two names
RegsHeader ==
    << Call("Var", <<"f", ",", "f", "i", "l", "e">>, {}, "string", "f", <<>>),
       Call("Var", <<"H", ",", " ", "h", "e", "a", "d", "e", "r">>, {},
            "stringSlice", "H", <<>>),
       Call("Opt", <<"v", ",", " ", "v", "e", "r", "b", "o", "s", "e">>, {},
            "boolSlice", "v", <<>>) >>

TokensHeader ==
    { <<"-", "f">>, <<"-", "-", "f", "i", "l", "e", "=", "a">>, <<"-", "f", "=", "b">>,
      <<"-", "H">>, <<"-", "-", "h", "e", "a", "d", "e", "r", "=", "a">>,
      <<"-", "H", "=", "b">>, <<"a">>,
      <<"-", "v">>, <<"-", "-", "v", "e", "r", "b", "o", "s", "e">>,
      <<"-", "v", "=", "f", "a", "l", "s", "e">> }

\* TestMatchVar: flags that stand for a fixed value
RegsMatch ==
    << CallMatchVar(<<"0", ",", " ", "n", "u", "l", "l">>, {PosixShort}, "int",
                    "bt", 0, 10),
       CallMatchVar(<<"s">>, {PosixShort}, "string", "s", <<"k">>, <<"o", "d">>),
       CallMatchVar(<<"b">>, {PosixShort}, "bool", "b", FALSE, TRUE) >>

TokensMatch ==
    { <<"-", "0">>, <<"-", "-", "n", "u", "l", "l">>, <<"-", "s">>, <<"-", "-", "s">>,
      <<"-", "b">>, <<"-", "s", "=", "x">>, <<"-", "b", "=", "f", "a", "l", "s", "e">>,
      <<"-", "n", "u", "l", "l", "=", "4">>, <<"-", "s", "b">>, <<"-", "b", "s">>,
      <<"x">>, <<"4">>, <<"-", "z">>, <<"-", "-">> }

\* TestOptHelp, which calls Parse twice on one FlagSet: a boolean flag,
\* positional arguments, the terminator and an unknown flag
RegsAgain ==
    << Call("Opt", <<"b">>, {}, "bool", "b", FALSE) >>

TokensAgain ==
    { <<"-", "b">>, <<"x">>, <<"y">>, <<"-", "-">>, <<"-", "z">> }

\* testOptBoolSlice3: a boolean slice that may be clustered
RegsVerbose ==
    << Call("Opt", <<"v">>, {PosixShort}, "boolSlice", "v", <<>>) >>

TokensVerbose ==
    { <<"-", "v">>, <<"-", "v", "v">>, <<"-", "v", "v", "v">>, <<"x">>,
      <<"f", "a", "l", "s", "e">> }

\* the pattern flag of TestOptOpt registered without Flags: no bit is asked
\* for
RegsLines ==
    << CallOptOpt(DigitsRegex, << <<"n">> >>, << <<"l", "l">> >>, {}, "int",
                  "lines", 0) >>

TokensLines ==
    { <<"-", "4">>, <<"-", "n">>, <<"-", "n", "=", "4">>, <<"-", "-", "l", "l">>,
      <<"4">>, <<"x">> }

Programs ==
    {"parse", "cat", "grep", "tail", "curl", "help", "ver", "header", "match",
     "again", "verbose", "lines"}

RegsOf(p) ==
    CASE p = "parse" -> RegsParse [] p = "cat" -> RegsCat [] p = "grep" -> RegsGrep
      [] p = "tail" -> RegsTail [] p = "curl" -> RegsCurl
      [] p = "help" -> RegsHelp [] p = "ver" -> RegsVer [] p = "header" -> RegsHeader
      [] p = "match" -> RegsMatch [] p = "again" -> RegsAgain
      [] p = "verbose" -> RegsVerbose [] p = "lines" -> RegsLines

TokensOf(p) ==
    CASE p = "parse" -> TokensParse [] p = "cat" -> TokensCat [] p = "grep" -> TokensGrep
      [] p = "tail" -> TokensTail [] p = "curl" -> TokensCurl
      [] p = "help" -> TokensHelp [] p = "ver" -> TokensVer
      [] p = "header" -> TokensHeader [] p = "match" -> TokensMatch
      [] p = "again" -> TokensAgain [] p = "verbose" -> TokensVerbose
      [] p = "lines" -> TokensLines

MaxArgsOf(p) ==
    CASE p = "cat" -> MaxArgsCluster [] p = "curl" -> MaxArgsGreedy
      [] p = "header" -> MaxArgsAlias
      [] OTHER -> MaxArgs

ArgLists(p) == UNION {[1..k -> TokensOf(p)] : k \in 0..MaxArgsOf(p)}

----------------------------------------------------------------------------
(* The state machine: a program builds its FlagSet and calls Parse once *)

Init ==
    /\ prog \in Programs
    /\ reg = RegsOf(prog)
    /\ f = RegisterAll(NewFlagSet(ContinueOnError), reg).f
    /\ pc = "ready"
    /\ arguments = <<>>
    /\ pre = f
    /\ ret = Nil

\* the call of f.Parse(args)
ParseBegin ==
    /\ pc = "ready"
    /\ prog \in Programs
    /\ \E args \in ArgLists(prog) :
        /\ arguments' = args
        /\ pre' = f
        /\ f' = parseStart(f, args)
    /\ pc' = "parsing"
    /\ ret' = Nil
    /\ UNCHANGED <<prog, reg>>

\* one turn of Parse's loop; the last turn returns
ParseStep ==
    /\ pc = "parsing"
    /\ \E t \in {parseTurn(f)} :
        /\ f' = t.f
        /\ pc' = t.pc
        /\ ret' = t.ret
    /\ UNCHANGED <<prog, reg, arguments, pre>>

Next == ParseBegin \/ ParseStep

Spec == Init /\ [][Next]_vars

\* the same, the loop of Parse going on as long as it has a turn to take:
\* weak fairness of ParseStep, WF_vars(ParseStep), with ENABLED
\* <<ParseStep>>_vars written as the condition of the loop, pc = "parsing"
FairParse == <>[](pc = "parsing") => []<><<ParseStep>>_vars

\* the programs with the terminator, a greedy loop, clusters and a pattern
ProgramsLive == {"parse", "curl", "grep", "tail"}

InitLive == Init /\ prog \in ProgramsLive

SpecLive == InitLive /\ [][Next]_vars /\ FairParse

----------------------------------------------------------------------------
(* The programs under each of the three error-handling policies *)

ProgramsPolicy == {"parse", "grep", "help"}

InitPolicy ==
    /\ prog \in ProgramsPolicy
    /\ reg = RegsOf(prog)
    /\ \E errorHandling \in Policies :
          f = RegisterAll(NewFlagSet(errorHandling), reg).f
    /\ pc = "ready"
    /\ arguments = <<>>
    /\ pre = f
    /\ ret = Nil

NextPolicy == ParseBegin \/ ParseStep

SpecPolicy == InitPolicy /\ [][NextPolicy]_vars

----------------------------------------------------------------------------
(* The program that calls Parse again on the FlagSet it has parsed with *)

MaxParses == 2

InitAgain ==
    /\ prog = "again"
    /\ reg = RegsOf(prog)
    /\ f = RegisterAll(NewFlagSet(ContinueOnError), reg).f
    /\ pc = "ready"
    /\ arguments = <<>>
    /\ pre = f
    /\ ret = Nil

\* a further call of f.Parse(args), after an earlier one returned
ParseAgain ==
    /\ pc = "done"
    /\ f.calls < MaxParses
    /\ \E args \in ArgLists(prog) :
        /\ arguments' = args
        /\ pre' = f
        /\ f' = parseStart(f, args)
    /\ pc' = "parsing"
    /\ ret' = Nil
    /\ UNCHANGED <<prog, reg>>

NextAgain == ParseBegin \/ ParseStep \/ ParseAgain

SpecAgain == InitAgain /\ [][NextAgain]_vars

----------------------------------------------------------------------------
(* The registration machine: a program makes a FlagSet under one of the    *)
(* three error-handling policies and registers flags on it, one call at a  *)
(* time, until a call panics.                                              *)

MaxRegs == 2

\* the registration calls a program may make
Catalogue ==
    << Call("Var", <<"x">>, {}, "bool", "v1", FALSE),
       Call("Opt", <<"x">>, {}, "string", "v2", <<>>),
       Call("Opt", <<"x", ",", " ", "x", "x">>, {PosixShort}, "bool", "v3", FALSE),
       CallOptOpt(<<>>, << <<"x">> >>, << <<"y", "y">> >>, {}, "int", "v4", 0),
       Call("Var", <<"y">>, {}, "string", "v5", <<>>),
       Call("Var", <<"h">>, {}, "bool", "v6", FALSE),
       Call("Opt", <<"h", "e", "l", "p">>, {}, "string", "v7", <<>>),
       Call("Opt", <<"V">>, {}, "bool", "v8", FALSE),
       Call("Var", <<"v", "e", "r", "s", "i", "o", "n">>, {}, "string", "v9", <<>>),
       Call("Opt", N_h_help, {}, "bool", "v10", FALSE),
       Call("Opt", <<"V", ",", " ", "x">>, {}, "bool", "v11", FALSE),
       Call("Opt", <<"z", ",", " ", "x", "x">>, {}, "bool", "v12", FALSE),
       Call("Opt", <<"g">>, {PosixShort, GreedyMode}, "string", "v13", <<>>) >>

InitReg ==
    /\ prog = "registration"
    /\ reg = <<>>
    /\ \E errorHandling \in Policies : f = NewFlagSet(errorHandling)
    /\ pc = "ready"
    /\ arguments = <<>>
    /\ pre = f
    /\ ret = Nil

\* one registration call; a panic ends the program
RegisterCall ==
    /\ pc = "ready"
    /\ prog = "registration"
    /\ Len(reg) < MaxRegs
    /\ \E i \in DOMAIN Catalogue :
        \E r \in {Register(f, Catalogue[i])} :
            /\ f' = r.f
            /\ pre' = f
            /\ reg' = Append(reg, Catalogue[i])
            /\ pc' = IF r.panicked THEN "panicked" ELSE "ready"
            /\ ret' = IF r.panicked THEN Errorf(r.msg, <<>>, <<>>) ELSE Nil
    /\ UNCHANGED <<prog, arguments>>

NextReg == RegisterCall

SpecReg == InitReg /\ [][NextReg]_vars

----------------------------------------------------------------------------
(* A program registers one flag with a default, renders the default as     *)
(* Var does for DefValue, and hands the text back to the adapter's Set     *)

MaxText == 2

MaxElems == 2

\* the texts of at most n bytes
Texts(n) == UNION {[1..k -> {"a", "\""}] : k \in 0..n}

\* the defaults a program may give to a flag of each adapter
DefaultsOf(kind) ==
    CASE kind = "bool" -> {FALSE, TRUE}
      [] kind = "int" -> {0 - MaxInt32, 0 - 10, 0 - 1, 0, 1, 9, 10, 42, MaxInt32}
      [] kind = "string" -> Texts(MaxText)
      [] kind = "stringSlice" ->
            UNION {[1..k -> Texts(MaxText)] : k \in 0..MaxElems}
      [] kind = "boolSlice" -> UNION {[1..k -> BOOLEAN] : k \in 0..MaxElems}

Kinds == {"bool", "int", "string", "stringSlice", "boolSlice"}

InitRound ==
    /\ prog = "round"
    /\ \E kind \in Kinds : \E def \in DefaultsOf(kind) :
          reg = << Call("Var", <<"x">>, {}, kind, "x", def) >>
    /\ f = RegisterAll(NewFlagSet(ContinueOnError), reg).f
    /\ pc = "ready"
    /\ arguments = <<>>
    /\ pre = f
    /\ ret = Nil

\* DefValue: value.String(), as Var computes it
Render ==
    /\ pc = "ready"
    /\ arguments' = << ValueString(f.mem, f.formal[<<"x">>].Value) >>
    /\ pc' = "rendered"
    /\ UNCHANGED <<f, pre, ret, prog, reg>>

\* flag.Value.Set(flag.DefValue)
SetBack ==
    /\ pc = "rendered"
    /\ \E r \in {CallSet(f, f.formal[<<"x">>], arguments[1])} :
          /\ f' = r.f
          /\ ret' = IF r.ok THEN Nil ELSE Errorf("invalid", <<"x">>, arguments[1])
    /\ pc' = "restored"
    /\ UNCHANGED <<arguments, pre, prog, reg>>

NextRound == Render \/ SetBack

SpecRound == InitRound /\ [][NextRound]_vars

----------------------------------------------------------------------------
(* Subcommands.  A ParentCommand is a record: subCommand, the table of the  *)
(* subcommands under their whole names; subCommand2, the table under each   *)
(* single name; args; out, what was written; ran, the callbacks invoked,    *)
(* each with what Args() returned while it ran.                             *)

\* NewParentCommand
NewParentCommand ==
    [subCommand |-> EmptyMap, subCommand2 |-> EmptyMap, args |-> <<>>,
     out |-> <<>>, ran |-> <<>>]

\* ParentCommand.saveSubCommand into the table named sub; subProcess names
\* the callback
saveSubCommand(p, sub, name, subProcess) ==
    IF Has(p[sub], name)
        THEN [p |-> [p EXCEPT !.out = Append(@, "subcommand redefined")],
              panicked |-> TRUE]
    ELSE [p |-> [p EXCEPT ![sub] = Put(@, name, [Name |-> name,
                                                 SubProcess |-> subProcess])],
          panicked |-> FALSE]

\* the loop of ParentCommand.SubCommand over the single names
RECURSIVE saveNames(_, _, _, _)
saveNames(r, names, subProcess, i) ==
    IF r.panicked \/ i > Len(names) THEN r
    ELSE saveNames(saveSubCommand(r.p, "subCommand2", names[i], subProcess),
                   names, subProcess, i + 1)

\* ParentCommand.SubCommand(name, usage, subProcess); the callback is named
\* after the text the program registered it with
SubCommand(p, name) ==
    LET parts == Split(name, ",")
        names == IF Len(parts) > 1
                     THEN SortByLen([k \in 1..Len(parts) |-> TrimSpace(parts[k])])
                     ELSE parts
        joined == IF Len(parts) > 1 THEN Join(names) ELSE name
    IN  saveNames(saveSubCommand(p, "subCommand", joined, name), names, name, 1)

\* ParentCommand.usage
cmdUsage(p) == [p EXCEPT !.out = Append(@, "usage")]

\* ParentCommand.failf
cmdFailf(p) == cmdUsage([p EXCEPT !.out = Append(@, "error")])

\* the end of ParentCommand.parseOne: sub is the subcommand found
cmdRun(p, sub) ==
    [p |-> [p EXCEPT !.args = Tail(@),
                     !.ran = Append(@, [SubProcess |-> sub.SubProcess,
                                        Args |-> Tail(p.args)])],
     seen |-> TRUE, err |-> Nil, panicked |-> FALSE]

\* ParentCommand.parseOne.  s[0] of an empty token is an index out of range:
\* the runtime panics.
cmdParseOne(p) ==
    IF Len(p.args) = 0
        THEN [p |-> p, seen |-> FALSE, err |-> Nil, panicked |-> FALSE]
    ELSE IF Len(p.args[1]) = 0
        THEN [p |-> p, seen |-> FALSE,
              err |-> Errorf("index out of range", <<>>, <<>>), panicked |-> TRUE]
    ELSE
        LET s == p.args[1]
            numMinuses == IF s[1] = "-"
                              THEN IF Len(s) >= 2 /\ s[2] = "-" THEN 2 ELSE 1
                              ELSE 0
            name == From(s, numMinuses)
        IN  IF Has(p.subCommand, name) THEN cmdRun(p, p.subCommand[name])
            ELSE IF name = <<"h">> \/ name = <<"h", "e", "l", "p">>
                THEN [p |-> cmdUsage(p), seen |-> FALSE, err |-> ErrHelp,
                      panicked |-> FALSE]
            ELSE IF Has(p.subCommand2, name) THEN cmdRun(p, p.subCommand2[name])
            ELSE [p |-> cmdFailf(p), seen |-> FALSE,
                  err |-> Errorf("undefined subcommand", name, <<>>),
                  panicked |-> FALSE]

\* ParentCommand.Parse(arguments): one call of parseOne, whose error it returns
cmdParse(p, args) == cmdParseOne([p EXCEPT !.args = args])

MaxSubs == 2

MaxArgsCmd == 2

\* the names a program may register subcommands under
CatalogueCmd ==
    << <<"c", "l", "o", "n", "e">>,
       <<"a", "d", "d", ",", " ", "a">>,
       <<"a">>,
       <<"h", ",", " ", "h", "e", "l", "p">>,
       <<"r", "m">> >>

TokensCmd ==
    { <<"c", "l", "o", "n", "e">>, <<"-", "c", "l", "o", "n", "e">>,
      <<"-", "-", "c", "l", "o", "n", "e">>, <<"-", "-", "-", "c", "l", "o", "n", "e">>,
      <<"a">>, <<"a", "d", "d">>, <<"-", "-", "a", "d", "d">>,
      <<"a", ",", " ", "a", "d", "d">>, <<"r", "m">>,
      <<"h">>, <<"-", "h">>, <<"h", "e", "l", "p">>,
      <<"x">>, <<"-">>, <<"-", "-">>, <<>> }

ArgListsCmd == UNION {[1..k -> TokensCmd] : k \in 0..MaxArgsCmd}

InitCmd ==
    /\ prog = "subcommand"
    /\ reg = <<>>
    /\ f = NewParentCommand
    /\ pc = "ready"
    /\ arguments = <<>>
    /\ pre = f
    /\ ret = Nil

\* one call of parent.SubCommand; a panic ends the program
SubCommandCall ==
    /\ pc = "ready"
    /\ prog = "subcommand"
    /\ Len(reg) < MaxSubs
    /\ \E i \in DOMAIN CatalogueCmd :
        \E r \in {SubCommand(f, CatalogueCmd[i])} :
            /\ f' = r.p
            /\ pre' = f
            /\ reg' = Append(reg, CatalogueCmd[i])
            /\ pc' = IF r.panicked THEN "panicked" ELSE "ready"
            /\ ret' = IF r.panicked THEN Errorf("subcommand redefined", <<>>, <<>>)
                       ELSE Nil
    /\ UNCHANGED <<prog, arguments>>

\* the call of parent.Parse(args)
CmdParse ==
    /\ pc = "ready"
    /\ prog = "subcommand"
    /\ \E args \in ArgListsCmd :
        \E r \in {cmdParse(f, args)} :
            /\ arguments' = args
            /\ pre' = f
            /\ f' = r.p
            /\ pc' = IF r.panicked THEN "panicked" ELSE "done"
            /\ ret' = r.err
    /\ UNCHANGED <<prog, reg>>

NextCmd == SubCommandCall \/ CmdParse

SpecCmd == InitCmd /\ [][NextCmd]_vars

----------------------------------------------------------------------------
(* What the properties below speak of *)

\* FlagSet.Args
Args(fs) == fs.args

Range(s) == {s[i] : i \in DOMAIN s}

\* the names a program registered, the generated help and version left out
Registered(fs) ==
    ((DOMAIN fs.formal) \ {N_h_help, N_V_version})
        \cup ((DOMAIN fs.shortLong) \ ReservedNames)

\* the flag a registered name stands for
FlagOf(fs, n) == IF Has(fs.formal, n) THEN fs.formal[n] ELSE fs.shortLong[n]

\* the variable a registered name is bound to
VarOf(fs, n) == FlagOf(fs, n).Value.p

\* the boolean flags; a flag registered with MatchVar is none
BoolFlags(fs) ==
    {n \in Registered(fs) : /\ FlagOf(fs, n).Value.kind = "bool"
                            /\ NotValue \notin FlagOf(fs, n).flags}

\* the flags that need a value: not boolean, not NotValue, not RegexKeyIsValue
ValueFlags(fs) ==
    {n \in Registered(fs) :
        /\ FlagOf(fs, n).Value.kind \notin {"bool", "boolSlice"}
        /\ NotValue \notin FlagOf(fs, n).flags
        /\ RegexKeyIsValue \notin FlagOf(fs, n).flags}

\* the one-letter boolean flags that may be clustered
ClusterBools(fs) ==
    {n \in BoolFlags(fs) : Len(n) = 1 /\ PosixShort \in FlagOf(fs, n).flags}

\* a token that does not start with '-'
Bare(t) == t = <<>> \/ t[1] # "-"

Done == pc = "done"

----------------------------------------------------------------------------
(* C1 *)

C1_Step ==
    \A n \in BoolFlags(f) :
        (pc = "parsing" /\ f.args # <<>>) =>
            /\ f.args[1] \in {<<"-">> \o n, <<"-", "-">> \o n}
                => /\ f'.mem[FlagOf(f, n).Value.p] = TRUE
                   /\ f'.args = Tail(f.args)
                   /\ pc' = "parsing"
            /\ f.args[1] = <<"-">> \o n \o <<"=", "f", "a", "l", "s", "e">>
                => /\ f'.mem[FlagOf(f, n).Value.p] = FALSE
                   /\ f'.args = Tail(f.args)
                   /\ pc' = "parsing"

C1_Following ==
    (/\ Done
     /\ Len(arguments) >= 2
     /\ \E n \in BoolFlags(pre) :
            arguments[1] \in {<<"-">> \o n, <<"-", "-">> \o n}
     /\ Bare(arguments[2]))
        => Args(f) # <<>> /\ Args(f)[1] = arguments[2]

\* C1: for every registered boolean flag b, the turn of Parse that meets the
\* token -b or --b sets b's variable to true and takes that token only, the
\* turn that meets -b=false sets it to false, and a token after -b that does
\* not start with '-' is the first of Args() when Parse has returned.
C1_BoolFlag == [][C1_Step]_vars /\ []C1_Following

C1_Witness ==
    /\ Done
    /\ prog = "parse"
    /\ arguments = << <<"-", "b">>, <<"x">> >>
    /\ f.mem["b"] = TRUE
    /\ Args(f) = << <<"x">> >>

----------------------------------------------------------------------------
(* C2 *)

\* C2: for every value-taking flag n and every text V, a Parse of -n V ...
\* ends with the same value of n's variable, the same Args() and the same
\* return value as a Parse of -n=V ... from the same FlagSet.
C2_InlineSameAsNext ==
    (Done /\ Len(arguments) >= 2) =>
        \A n \in ValueFlags(pre) :
            arguments[1] \in {<<"-">> \o n, <<"-", "-">> \o n} =>
                \A q \in {Parse(pre, <<arguments[1] \o <<"=">> \o arguments[2]>>
                                     \o SubSeq(arguments, 3, Len(arguments)))} :
                    /\ q.f.mem[FlagOf(pre, n).Value.p] = f.mem[FlagOf(pre, n).Value.p]
                    /\ Args(q.f) = Args(f)
                    /\ q.ret = ret
                    /\ q.pc = pc

C2_Witness ==
    /\ Done
    /\ prog = "parse"
    /\ arguments = << <<"-", "s">>, <<"x", "=", "y">> >>
    /\ f.mem["s"] = <<"x", "=", "y">>
    /\ Args(f) = <<>>
    /\ ret = Nil

----------------------------------------------------------------------------
(* C3 *)

\* a single-dash token made of the letters of clusterable boolean flags
IsBoolCluster(fs, t) ==
    /\ Len(t) >= 2
    /\ t[1] = "-"
    /\ \A i \in 2..Len(t) : <<t[i]>> \in ClusterBools(fs)

\* C3: when every token is a single-dash token made of the letters of
\* clusterable boolean flags, Parse returns nil, the variable of every flag
\* named is true, every other variable is as it was and Args() is empty:
\* the outcome depends on which letters are there, not on their order.
C3_ClusterOfBools ==
    (/\ Done
     /\ arguments # <<>>
     /\ \A k \in DOMAIN arguments : IsBoolCluster(pre, arguments[k]))
        => /\ ret = Nil
           /\ Args(f) = <<>>
           /\ \A n \in Registered(pre) :
                f.mem[FlagOf(pre, n).Value.p] =
                    IF \E k \in DOMAIN arguments :
                          \E i \in 2..Len(arguments[k]) :
                              VarOf(pre, <<arguments[k][i]>>) = VarOf(pre, n)
                        THEN TRUE
                        ELSE pre.mem[FlagOf(pre, n).Value.p]

C3_Witness ==
    /\ Done
    /\ prog = "cat"
    /\ arguments = << <<"-", "c", "a", "b">> >>
    /\ f.mem["a"] = TRUE /\ f.mem["b"] = TRUE /\ f.mem["c"] = TRUE
    /\ ret = Nil

----------------------------------------------------------------------------
(* C4 *)

\* the one-letter value-taking flags that may be clustered
GluedFlags(fs) ==
    {n \in Registered(fs) :
        /\ Len(n) = 1
        /\ PosixShort \in FlagOf(fs, n).flags
        /\ FlagOf(fs, n).Value.kind \notin {"bool", "boolSlice"}}

\* t is -nV: the letter of n, then a value V that is not empty, the whole
\* being no name of its own
IsGlued(fs, t, n) ==
    /\ Len(t) >= 3
    /\ t[1] = "-"
    /\ <<t[2]>> = n
    /\ getFlag(fs, parseNameValue(Tail(t)).name).err.kind = "undefined"

\* C4: for a clusterable value-taking flag n and a value V its adapter
\* accepts, Parse of -nV and Parse of -n V leave n's variable with the same
\* value, the value of V, and Args() empty.
C4_GluedValue ==
    (Done /\ Len(arguments) = 1) =>
        \A n \in GluedFlags(pre) :
            (/\ IsGlued(pre, arguments[1], n)
             /\ ValueSet(pre.mem, FlagOf(pre, n).Value, From(arguments[1], 2)).ok)
                => \A q \in {Parse(pre, << <<"-">> \o n, From(arguments[1], 2) >>)} :
                      /\ f.mem[VarOf(pre, n)] = q.f.mem[VarOf(pre, n)]
                      /\ f.mem[VarOf(pre, n)] =
                            ValueSet(pre.mem, FlagOf(pre, n).Value,
                                     From(arguments[1], 2)).mem[VarOf(pre, n)]
                      /\ Args(f) = <<>>
                      /\ Args(q.f) = <<>>

----------------------------------------------------------------------------
(* C5 *)

\* C5: when Parse is given the one token -nV, n a clusterable value-taking
\* flag and V its glued value, the only call of Set is the one of n's adapter
\* with V, no other variable changes and no other flag is marked as seen.
C5_ScanStops ==
    (Done /\ Len(arguments) = 1) =>
        \A n \in GluedFlags(pre) :
            IsGlued(pre, arguments[1], n) =>
                /\ f.sets = << [p |-> VarOf(pre, n), text |-> From(arguments[1], 2)] >>
                /\ \A m \in Registered(pre) :
                      VarOf(pre, m) # VarOf(pre, n)
                          => f.mem[VarOf(pre, m)] = pre.mem[VarOf(pre, m)]
                /\ DOMAIN f.actual \subseteq {n}

----------------------------------------------------------------------------
(* C6 *)

GreedyFlags(fs) == {n \in Registered(fs) : GreedyMode \in FlagOf(fs, n).flags}

\* a token of at least 2 bytes that starts with '-'
Dashed(t) == Len(t) >= 2 /\ t[1] = "-"

\* a flag-introducer: a dashed token that names a registered flag which is
\* not greedy, by its name or as a cluster of boolean flags
IsFlagToken(fs, t) ==
    /\ Dashed(t)
    /\ \/ \E n \in Registered(fs) \ GreedyFlags(fs) :
            t \in {<<"-">> \o n, <<"-", "-">> \o n}
       \/ IsBoolCluster(fs, t)

\* how many tokens follow the first one before the next dashed token
ValuesAfterFirst(args) ==
    IF \E j \in 2..Len(args) : Dashed(args[j])
        THEN Min({j \in 2..Len(args) : Dashed(args[j])}) - 2
        ELSE Len(args) - 1

\* C6: for a greedy flag H bound to a string slice, Parse of -H v1 ... vk
\* F ..., every dashed token after H being a flag-introducer, ends with H's
\* slice equal to v1 ... vk (k >= 0), and with the flags of F set when F is a
\* cluster of boolean flags; when the input ends instead of F, Args() is
\* empty.
C6_GreedyCollects ==
    (/\ Done
     /\ arguments # <<>>
     /\ \E H \in GreedyFlags(pre) : arguments[1] = <<"-">> \o H
     /\ \A j \in 2..Len(arguments) :
            Bare(arguments[j]) \/ IsFlagToken(pre, arguments[j]))
        => \A H \in GreedyFlags(pre) :
              arguments[1] = <<"-">> \o H =>
                  /\ f.mem[VarOf(pre, H)] =
                        SubSeq(arguments, 2, ValuesAfterFirst(arguments) + 1)
                  /\ ValuesAfterFirst(arguments) = Len(arguments) - 1
                        => Args(f) = <<>>
                  /\ (/\ ValuesAfterFirst(arguments) < Len(arguments) - 1
                      /\ IsBoolCluster(pre, arguments[ValuesAfterFirst(arguments) + 2]))
                        => \A i \in 2..Len(arguments[ValuesAfterFirst(arguments) + 2]) :
                              f.mem[VarOf(pre,
                                  <<arguments[ValuesAfterFirst(arguments) + 2][i]>>)] = TRUE

----------------------------------------------------------------------------
(* C7 *)

\* the calls of Set a cluster of boolean flags is to cause, in order
ClusterSets(fs, t) ==
    [j \in 1..(Len(t) - 1) |->
        [p |-> VarOf(fs, <<t[j + 1]>>), text |-> <<"t", "r", "u", "e">>]]

\* C7: the calls of Set of one Parse are one per occurrence of a flag, in
\* the order of the command line, (1) for one cluster of boolean flags, (2)
\* for a greedy flag, its values (one at least) and then a cluster of boolean
\* flags, and (3) for one short flag with a glued value.
C7_SetOncePerOccurrence ==
    Done =>
        /\ (Len(arguments) = 1 /\ IsBoolCluster(pre, arguments[1]))
              => f.sets = ClusterSets(pre, arguments[1])
        /\ \A H \in GreedyFlags(pre) :
              (/\ Len(arguments) >= 3
               /\ arguments[1] = <<"-">> \o H
               /\ \A j \in 2..(Len(arguments) - 1) : Bare(arguments[j])
               /\ IsBoolCluster(pre, arguments[Len(arguments)]))
                  => f.sets =
                        [j \in 1..(Len(arguments) - 2) |->
                            [p |-> VarOf(pre, H), text |-> arguments[j + 1]]]
                        \o ClusterSets(pre, arguments[Len(arguments)])
        /\ \A n \in GluedFlags(pre) :
              (Len(arguments) = 1 /\ IsGlued(pre, arguments[1], n))
                  => Len(f.sets) = 1

----------------------------------------------------------------------------
(* C8 *)

\* the name a dashed token gives: what follows its one or two dashes, up to
\* the inline value
NameOf(t) ==
    parseNameValue(IF t[2] = "-" THEN From(t, 2) ELSE From(t, 1)).name

\* the bytes of a name that resolve to a clusterable flag
Resolved(fs, name) ==
    {i \in 1..Len(name) :
        /\ getFlag(fs, <<name[i]>>).err = Nil
        /\ PosixShort \in getFlag(fs, <<name[i]>>).flag.flags}

\* a dashed token that names no registered flag and of which no clusterable
\* flag can take a byte
IsUnknown(fs, t) ==
    /\ Dashed(t)
    /\ t # <<"-", "-">>
    /\ NameOf(t) # <<>>
    /\ NameOf(t)[1] \notin {"-", "="}
    /\ getFlag(fs, NameOf(t)).err.kind = "undefined"
    /\ Resolved(fs, NameOf(t)) = {}

\* a token that is a boolean flag, alone or in a cluster
IsBoolToken(fs, t) ==
    \/ \E n \in BoolFlags(fs) : t \in {<<"-">> \o n, <<"-", "-">> \o n}
    \/ IsBoolCluster(fs, t)

\* the tokens before the k-th are positional arguments, boolean flags and
\* greedy flags with one value at least, so that the k-th is met as a flag
MetAsFlag(fs, args, k) ==
    \A j \in 1..(k - 1) :
        \/ Bare(args[j])
        \/ IsBoolToken(fs, args[j])
        \/ /\ \E H \in GreedyFlags(fs) : args[j] = <<"-">> \o H
           /\ j + 1 < k
           /\ Bare(args[j + 1])

\* C8: when the k-th token is met as a flag and is unknown, Parse returns
\* the unknown-flag error, the token is not in Args() (which holds the
\* positional arguments met before it and the tokens after it), and the
\* variables, the calls of Set and the flags seen are those of the tokens
\* before it.
C8_UnknownFlag ==
    Done =>
        \A k \in DOMAIN arguments :
            (IsUnknown(pre, arguments[k]) /\ MetAsFlag(pre, arguments, k))
                => /\ ret.kind = "undefined"
                   /\ \A q \in {Parse(pre, SubSeq(arguments, 1, k - 1))} :
                         /\ Args(f) = Args(q.f)
                                        \o SubSeq(arguments, k + 1, Len(arguments))
                         /\ f.mem = q.f.mem
                         /\ f.sets = q.f.sets
                         /\ DOMAIN f.actual = DOMAIN q.f.actual

----------------------------------------------------------------------------
(* C9 *)

\* a single-dash token that matches no name
IsClusterToken(fs, t) ==
    /\ Dashed(t)
    /\ t[2] \notin {"-", "="}
    /\ getFlag(fs, NameOf(t)).err.kind = "undefined"

\* the bytes that resolve all name boolean flags
AllResolvedBool(fs, name) ==
    \A i \in Resolved(fs, name) : IsBoolFlag(getFlag(fs, <<name[i]>>).flag.Value)

C9_Step ==
    (/\ pc = "parsing"
     /\ f.openPosixShort
     /\ f.args # <<>>
     /\ IsClusterToken(f, f.args[1]))
        => /\ (pc' = "done" /\ ret'.kind = "undefined")
                <=> Resolved(f, NameOf(f.args[1])) = {}
           /\ Resolved(f, NameOf(f.args[1])) = {}
                => f'.mem = f.mem /\ f'.sets = f.sets /\ f'.actual = f.actual
           /\ Resolved(f, NameOf(f.args[1])) # {}
                => ret' = Nil \/ ret'.kind \in {"needarg", "invalid"}
           /\ (/\ Resolved(f, NameOf(f.args[1])) # {}
               /\ AllResolvedBool(f, NameOf(f.args[1])))
                => /\ pc' = "parsing"
                   /\ ret' = Nil
                   /\ f'.args = Tail(f.args)
                   /\ \A n \in Registered(f) :
                        f'.mem[VarOf(f, n)] =
                            IF \E i \in Resolved(f, NameOf(f.args[1])) :
                                  getFlag(f, <<NameOf(f.args[1])[i]>>).flag.Value.p
                                      = VarOf(f, n)
                                THEN TRUE
                                ELSE f.mem[VarOf(f, n)]

\* C9 (amended): with POSIX mode on, the turn of Parse that meets a
\* single-dash token matching no name ends Parse with the unknown-flag error
\* exactly when no byte of the token resolves to a clusterable flag, and then
\* changes nothing; when a byte resolves, Parse goes on or ends with an error
\* about a value (missing or refused); when every byte that resolves names a
\* boolean flag, the token is taken, those flags are true and the other bytes
\* change nothing.
C9_ClusterError == [][C9_Step]_vars

C9_Witness ==
    /\ Done
    /\ prog = "cat"
    /\ arguments = << <<"-", "z", "b">> >>
    /\ ret = Nil
    /\ f.mem["b"] = TRUE /\ f.mem["a"] = FALSE
    /\ Args(f) = <<>>

\* C9 as it was stated: when a byte of the one token resolves, Parse returns nil.
C9_Original ==
    (/\ Done
     /\ pre.openPosixShort
     /\ Len(arguments) = 1
     /\ IsClusterToken(pre, arguments[1])
     /\ Resolved(pre, NameOf(arguments[1])) # {})
        => ret = Nil

----------------------------------------------------------------------------
(* C10 *)

\* the names a registration call registers
NamesOf(c) ==
    IF c.api = "OptOpt"
        THEN Range(c.Short) \cup Range(c.Long)
                \cup (IF c.Regex # <<>> THEN {c.Regex} ELSE {})
    ELSE IF newName(c.name).ok THEN Range(newName(c.name).names)
    ELSE {c.name}

\* the last registration call made
LastCall == reg[Len(reg)]

\* C10: whatever the policy, a registration call that gives a name an
\* earlier call gave panics with "flag redefined", unless the name is h,
\* help, V or version; a call whose names are all among h, help, V and
\* version does not panic, and the entries it writes (the primary one under
\* its name, the alias ones under the names of its list) hold its flag.
C10_Redefined ==
    (prog = "registration" /\ reg # <<>>) =>
        /\ (\E j \in 1..(Len(reg) - 1) :
                (NamesOf(reg[j]) \cap NamesOf(LastCall)) \ ReservedNames # {})
              => pc = "panicked" /\ ret.kind = "flag redefined"
        /\ NamesOf(LastCall) \subseteq ReservedNames
              => /\ pc = "ready"
                 /\ Has(f.formal, newName(LastCall.name).name)
                 /\ f.formal[newName(LastCall.name).name].Value.p = LastCall.p
                 /\ newName(LastCall.name).ok
                      => \A v \in NamesOf(LastCall) :
                            /\ Has(f.shortLong, v)
                            /\ f.shortLong[v].Value.p = LastCall.p

----------------------------------------------------------------------------
(* C11 *)

\* the registration calls that did not panic
Succeeded ==
    IF pc = "panicked" THEN 1..(Len(reg) - 1) ELSE 1..Len(reg)

\* C11: at every moment of a program's registrations, each name other than
\* h, help, V and version is a name of at most one registration that was
\* made without a panic: a call that gives a name again, alone or in a list
\* of aliases, panics.
C11_OneRegistrationPerName ==
    prog = "registration" =>
        \A i \in Succeeded : \A j \in Succeeded :
            i # j => (NamesOf(reg[i]) \cap NamesOf(reg[j])) \subseteq ReservedNames

----------------------------------------------------------------------------
(* C12 *)

\* the names that ask for help
HelpNames == {<<"h">>, <<"h", "e", "l", "p">>}

\* a token that asks for help by its name, with one dash or two
IsHelpToken(t) == Dashed(t) /\ t # <<"-", "-">> /\ NameOf(t) \in HelpNames

\* a cluster of clusterable boolean flags with the letter h at byte i: the
\* bytes before it are boolean flags, so the scan comes to the h
IsHelpCluster(fs, t, i) ==
    /\ fs.openPosixShort
    /\ IsClusterToken(fs, t)
    /\ i \in 2..Len(t)
    /\ t[i] = "h"
    /\ \A j \in 2..(i - 1) : <<t[j]>> \in ClusterBools(fs)

\* the arguments up to the help request at byte i of the k-th token: the
\* tokens before it, and the bytes of the cluster before the h if there are any
BeforeHelp(args, k, i) ==
    SubSeq(args, 1, k - 1)
        \o (IF i > 2 THEN << SubSeq(args[k], 1, i - 1) >> ELSE <<>>)

\* C12: when h or help is met, as a token with one or two dashes or as a
\* letter inside a POSIX cluster, usage is printed, Parse returns ErrHelp, and
\* the variables and the calls of Set are those of the arguments before it.
C12_HelpStops ==
    Done =>
        \A k \in DOMAIN arguments :
            MetAsFlag(pre, arguments, k) =>
                /\ IsHelpToken(arguments[k])
                     => /\ ret = ErrHelp
                        /\ "usage" \in Range(f.out)
                        /\ \A q \in {Parse(pre, SubSeq(arguments, 1, k - 1))} :
                              f.mem = q.f.mem /\ f.sets = q.f.sets
                /\ \A i \in 2..Len(arguments[k]) :
                     IsHelpCluster(pre, arguments[k], i)
                        => /\ ret = ErrHelp
                           /\ "usage" \in Range(f.out)
                           /\ \A q \in {Parse(pre, BeforeHelp(arguments, k, i))} :
                                 f.mem = q.f.mem /\ f.sets = q.f.sets

\* C12 for a help request that is a token of its own
C12_HelpToken ==
    Done =>
        \A k \in DOMAIN arguments :
            (MetAsFlag(pre, arguments, k) /\ IsHelpToken(arguments[k]))
                => /\ ret = ErrHelp
                   /\ "usage" \in Range(f.out)
                   /\ \A q \in {Parse(pre, SubSeq(arguments, 1, k - 1))} :
                         f.mem = q.f.mem /\ f.sets = q.f.sets

----------------------------------------------------------------------------
(* C13 *)

\* the names that ask for the version
VersionNames == {<<"V">>, <<"v", "e", "r", "s", "i", "o", "n">>}

\* a token that asks for the version by its name, with one dash or two
IsVersionToken(t) == Dashed(t) /\ t # <<"-", "-">> /\ NameOf(t) \in VersionNames

\* C13: when a version request is met, on a FlagSet with clusterable flags
\* or without, Parse returns the ErrVersion sentinel and what it wrote is the
\* version line, once, after the output of the arguments before it.
C13_VersionRequest ==
    Done =>
        \A k \in DOMAIN arguments :
            (MetAsFlag(pre, arguments, k) /\ IsVersionToken(arguments[k]))
                => /\ ret = ErrVersion
                   /\ \A q \in {Parse(pre, SubSeq(arguments, 1, k - 1))} :
                         f.out = Append(q.f.out, "version")

\* C13 on the FlagSets without POSIX mode
C13_VersionPlain ==
    (Done /\ ~pre.openPosixShort) =>
        \A k \in DOMAIN arguments :
            (MetAsFlag(pre, arguments, k) /\ IsVersionToken(arguments[k]))
                => /\ ret = ErrVersion
                   /\ \A q \in {Parse(pre, SubSeq(arguments, 1, k - 1))} :
                         f.out = Append(q.f.out, "version")

----------------------------------------------------------------------------
(* C14 *)

\* a dashed token that names a flag which takes the token after it as its
\* value: a flag that needs a value, is not greedy, and has no inline value
TakesNext(fs, t) ==
    /\ Dashed(t)
    /\ NameOf(t) \in ValueFlags(fs) \ GreedyFlags(fs)
    /\ \E n \in {NameOf(t)} : t \in {<<"-">> \o n, <<"-", "-">> \o n}

\* the one-letter flags that need a value and may be clustered
ClusterValues(fs) ==
    {n \in ValueFlags(fs) : Len(n) = 1 /\ PosixShort \in FlagOf(fs, n).flags}

\* a cluster that ends with a flag which needs a value, no byte before it
\* being such a flag: the flag takes the token after the cluster as its value
ClusterTakesNext(fs, t) ==
    /\ fs.openPosixShort
    /\ IsClusterToken(fs, t)
    /\ NameOf(t) = From(t, 1)
    /\ <<t[Len(t)]>> \in ClusterValues(fs)
    /\ \A i \in 2..(Len(t) - 1) : <<t[i]>> \notin ClusterValues(fs)

\* a dashed token that names a greedy flag
IsGreedyToken(fs, t) == Dashed(t) /\ NameOf(t) \in GreedyFlags(fs)

\* what Args() is to be after a successful Parse of args: the positional
\* tokens that no flag took as its value, in order, and then every token after
\* the first "--"
RECURSIVE ExpectedArgs(_, _)
ExpectedArgs(fs, args) ==
    IF args = <<>> THEN <<>>
    ELSE IF Head(args) = <<"-", "-">> THEN Tail(args)
    ELSE IF ~Dashed(Head(args))
        THEN <<Head(args)>> \o ExpectedArgs(fs, Tail(args))
    ELSE IF IsGreedyToken(fs, Head(args))
        THEN ExpectedArgs(fs, SubSeq(args, ValuesAfterFirst(args) + 2, Len(args)))
    ELSE IF (TakesNext(fs, Head(args)) \/ ClusterTakesNext(fs, Head(args)))
                /\ Len(args) >= 2
        THEN ExpectedArgs(fs, SubSeq(args, 3, Len(args)))
    ELSE ExpectedArgs(fs, Tail(args))

\* C14: after a successful Parse, Args() is the positional tokens not taken
\* as a flag's value, in input order, followed by every token after the first
\* "--"; and a boolean flag that follows positional tokens is set.
C14_Args ==
    (Done /\ ret = Nil) =>
        /\ Args(f) = ExpectedArgs(pre, arguments)
        /\ \A k \in DOMAIN arguments :
              (/\ \A j \in 1..(k - 1) : Bare(arguments[j])
               /\ \E n \in BoolFlags(pre) : arguments[k] = <<"-">> \o n)
                  => \A n \in BoolFlags(pre) :
                        arguments[k] = <<"-">> \o n => f.mem[VarOf(pre, n)] = TRUE

\* C14 on the FlagSets without greedy flags and without clusterable flags
\* that need a value
C14_ArgsPlain ==
    (Done /\ ret = Nil /\ GreedyFlags(pre) = {} /\ ClusterValues(pre) = {}) =>
        Args(f) = ExpectedArgs(pre, arguments)

----------------------------------------------------------------------------
(* C15 *)

C15_Step ==
    (pc = "parsing" /\ f.args # <<>>)
        => /\ f.args[1] = <<"-", "-">>
                => /\ pc' = "done"
                   /\ ret' = Nil
                   /\ f'.args = f.unkownArgs \o Tail(f.args)
                   /\ f'.mem = f.mem
                   /\ f'.sets = f.sets
           /\ ~Dashed(f.args[1])
                => /\ pc' = "parsing"
                   /\ ret' = Nil
                   /\ f'.args = Tail(f.args)
                   /\ f'.unkownArgs = Append(f.unkownArgs, f.args[1])
                   /\ f'.mem = f.mem
                   /\ f'.sets = f.sets
           /\ f.unkownArgs # <<>>
                => \A n \in BoolFlags(f) :
                      f.args[1] = <<"-">> \o n
                          => /\ pc' = "parsing"
                             /\ f'.mem = [f.mem EXCEPT ![VarOf(f, n)] = TRUE]
                             /\ f'.args = Tail(f.args)

----------------------------------------------------------------------------
(* C16 *)

\* the errors of a parse: bad syntax, unknown flag, missing value, and a
\* value the adapter refuses
RuntimeErrors ==
    {"badsyntax", "undefined", "needarg", "invalid", "invalidbool", "invalidboolflag"}

\* the last two things written to the FlagSet's output
LastTwo(out) == SubSeq(out, Len(out) - 1, Len(out))

\* C16: when Parse returns a runtime error, on a FlagSet with POSIX mode or
\* without, the last things written to the output are the error message and
\* then the usage text; when Parse returns for a help or a version request,
\* no error message was written.
C16_ErrorOutput ==
    Done =>
        /\ ret.kind \in RuntimeErrors
              => Len(f.out) >= 2 /\ LastTwo(f.out) = <<"error", "usage">>
        /\ ret.kind \in {"help", "version"} => "error" \notin Range(f.out)

\* the first part of C16 on the FlagSets with POSIX mode
C16_ErrorOutputPosix ==
    (Done /\ pre.openPosixShort /\ ret.kind \in RuntimeErrors)
        => Len(f.out) >= 2 /\ LastTwo(f.out) = <<"error", "usage">>

\* C16 for the errors other than the unknown flag and for help requests
C16_ErrorOutputKnown ==
    Done =>
        /\ ret.kind \in RuntimeErrors \ {"undefined"}
              => Len(f.out) >= 2 /\ LastTwo(f.out) = <<"error", "usage">>
        /\ ret.kind = "help" => "error" \notin Range(f.out)

----------------------------------------------------------------------------
(* C17 *)

\* the texts the arguments supply to the variable p, in command-line order:
\* the inline value of each occurrence of a flag bound to p, or the token
\* after it, or "true" for a boolean flag given bare
RECURSIVE Supplied(_, _, _)
Supplied(fs, args, p) ==
    IF args = <<>> \/ Head(args) = <<"-", "-">> THEN <<>>
    ELSE IF ~Dashed(Head(args)) \/ NameOf(Head(args)) \notin Registered(fs)
        THEN Supplied(fs, Tail(args), p)
    ELSE
        LET t == Head(args)
            n == NameOf(t)
            inline == t \notin {<<"-">> \o n, <<"-", "-">> \o n}
            takes == ~inline /\ n \in ValueFlags(fs) /\ Len(args) >= 2
            text == IF inline THEN From(t, Min(Positions(t, "=")) + 1)
                    ELSE IF takes THEN args[2]
                    ELSE <<"t", "r", "u", "e">>
            rest == IF takes THEN SubSeq(args, 3, Len(args)) ELSE Tail(args)
        IN  (IF VarOf(fs, n) = p THEN <<text>> ELSE <<>>) \o Supplied(fs, rest, p)

\* the value of a text for a variable of the kind given
ValueOfText(kind, text) ==
    CASE kind \in {"bool", "boolSlice"} -> ParseBool(text).v
      [] kind = "int" -> ParseInt(text).v
      [] OTHER -> text

\* what the variable of the flag n is to be after the texts sup were supplied
\* to it, old being its value before
ExpectedValue(kind, old, sup) ==
    IF kind \in {"stringSlice", "boolSlice"}
        THEN old \o [i \in 1..Len(sup) |-> ValueOfText(kind, sup[i])]
    ELSE IF sup = <<>> THEN old
    ELSE ValueOfText(kind, sup[Len(sup)])

\* C17: after a successful Parse on a FlagSet without POSIX mode and without
\* greedy flags, each flag's variable holds, for a scalar flag, the value of
\* the last occurrence of any of its names, with one dash or two, and for a
\* slice flag its old elements followed by all the values supplied, in
\* command-line order.
C17_RepeatedFlag ==
    (Done /\ ret = Nil /\ ~pre.openPosixShort /\ GreedyFlags(pre) = {})
        => \A n \in Registered(pre) :
              f.mem[VarOf(pre, n)] =
                  ExpectedValue(FlagOf(pre, n).Value.kind, pre.mem[VarOf(pre, n)],
                                Supplied(pre, arguments, VarOf(pre, n)))

\* C17 for the flags that are not slices of booleans
C17_RepeatedFlagNoBoolSlice ==
    (Done /\ ret = Nil /\ ~pre.openPosixShort /\ GreedyFlags(pre) = {})
        => \A n \in Registered(pre) :
              FlagOf(pre, n).Value.kind # "boolSlice"
                  => f.mem[VarOf(pre, n)] =
                        ExpectedValue(FlagOf(pre, n).Value.kind,
                                      pre.mem[VarOf(pre, n)],
                                      Supplied(pre, arguments, VarOf(pre, n)))

----------------------------------------------------------------------------
(* C18 *)

\* the flags registered with MatchVar
MatchFlags(fs) == {n \in Registered(fs) : NotValue \in FlagOf(fs, n).flags}

\* the value m of the MatchVar call that bound the variable p
MatchOf(p) == reg[CHOOSE i \in DOMAIN reg : reg[i].p = p].match[1]

\* a token of args names a flag bound to the variable p, by its name or by
\* one of its bytes
Mentioned(fs, args, p) ==
    \E k \in DOMAIN args :
        /\ Dashed(args[k])
        /\ \/ NameOf(args[k]) \in Registered(fs) /\ VarOf(fs, NameOf(args[k])) = p
           \/ \E i \in 2..Len(args[k]) :
                 <<args[k][i]>> \in Registered(fs) /\ VarOf(fs, <<args[k][i]>>) = p

C18_Step ==
    (/\ pc = "parsing"
     /\ f.args # <<>>
     /\ Dashed(f.args[1])
     /\ f.args[1] # <<"-", "-">>
     /\ NameOf(f.args[1]) \in MatchFlags(f))
        => /\ pc' = "parsing"
           /\ ret' = Nil
           /\ f'.args = Tail(f.args)
           /\ f'.mem = [f.mem EXCEPT ![VarOf(f, NameOf(f.args[1]))] =
                                        MatchOf(VarOf(f, NameOf(f.args[1])))]

C18_Unchanged ==
    \A i \in DOMAIN reg :
        reg[i].api = "MatchVar"
            => /\ pc = "ready" => f.mem[reg[i].p] = reg[i].def
               /\ (Done /\ ~Mentioned(pre, arguments, reg[i].p))
                     => f.mem[reg[i].p] = reg[i].def

\* C18: a flag registered with MatchVar(p, m) leaves *p as it was at
\* registration and as long as no token names the flag; the turn of Parse
\* that meets one of its names, with one dash or two, with an inline value or
\* without, sets *p to m, changes no other variable, takes that one token
\* only and goes on.
C18_MatchVar == [][C18_Step]_vars /\ []C18_Unchanged

C18_Witness ==
    /\ Done
    /\ prog = "match"
    /\ arguments = << <<"-", "s", "=", "x">>, <<"4">> >>
    /\ ret = Nil
    /\ f.mem["s"] = <<"o", "d">>
    /\ f.mem["bt"] = 0 /\ f.mem["b"] = FALSE
    /\ Args(f) = << <<"4">> >>

----------------------------------------------------------------------------
(* C19 *)

\* C19: after a call of Parse that follows an earlier one on the same
\* FlagSet, Args() holds tokens of that call's argument list only.
C19_FreshPerCall ==
    (Done /\ f.calls >= 2) => Range(Args(f)) \subseteq Range(arguments)

----------------------------------------------------------------------------
(* C20 *)

\* a token without its leading dashes, two at most
StripDashes(s) ==
    IF s # <<>> /\ s[1] = "-"
        THEN IF Len(s) >= 2 /\ s[2] = "-" THEN From(s, 2) ELSE From(s, 1)
        ELSE s

\* the names the registration r can be called by: its whole name and each
\* of its single names
NamesOfCmd(r) ==
    LET parts == Split(r, ",")
        names == [k \in 1..Len(parts) |-> TrimSpace(parts[k])]
    IN  IF Len(parts) > 1 THEN Range(names) \cup {Join(SortByLen(names))} ELSE {r}

\* the registrations the name stands for
CalledBy(name) == {i \in DOMAIN reg : name \in NamesOfCmd(reg[i])}

\* parent.Parse was called: it returned, or it panicked (a panic with no
\* arguments is the panic of a registration)
AfterCmdParse ==
    /\ prog = "subcommand"
    /\ pc = "done" \/ (pc = "panicked" /\ arguments # <<>>)

\* C20: ParentCommand.Parse of no argument returns nil and invokes nothing;
\* when the first token, without its leading dashes (two at most), is a name
\* of a registered subcommand, that subcommand's callback is invoked once,
\* with Args() the tokens after the first, and Parse returns nil; when it is
\* not, Parse returns an error, invokes nothing and leaves the arguments whole.
C20_OneToken ==
    AfterCmdParse
        => /\ pc = "done"
           /\ arguments = <<>>
                => ret = Nil /\ f.ran = <<>>
           /\ (arguments # <<>> /\ CalledBy(StripDashes(arguments[1])) # {})
                => /\ ret = Nil
                   /\ Len(f.ran) = 1
                   /\ \A i \in CalledBy(StripDashes(arguments[1])) :
                         f.ran[1].SubProcess = reg[i]
                   /\ f.ran[1].Args = Tail(arguments)
                   /\ f.args = Tail(arguments)
           /\ (arguments # <<>> /\ CalledBy(StripDashes(arguments[1])) = {})
                => /\ ret # Nil
                   /\ f.ran = <<>>
                   /\ f.args = arguments

\* C20 for a first token that is not empty and does not ask for help
C20_OneTokenPlain ==
    (/\ AfterCmdParse
     /\ arguments # <<>>
            => arguments[1] # <<>> /\ StripDashes(arguments[1]) \notin HelpNames)
        => C20_OneToken

\* C20 for a first token that is not empty
C20_OneTokenNotEmpty ==
    (AfterCmdParse /\ (arguments # <<>> => arguments[1] # <<>>))
        => C20_OneToken

----------------------------------------------------------------------------
(* C21 *)

\* where the caller is when Parse fails under a policy: Parse returned, the
\* process ended in os.Exit(2), or Parse panicked
Surfaces(errorHandling) ==
    CASE errorHandling = ContinueOnError -> "done"
      [] errorHandling = ExitOnError -> "exited"
      [] errorHandling = PanicOnError -> "panicked"

\* the turn of Parse under ContinueOnError, all else equal
TurnOfContinue(fs) ==
    parseTurnEnd(parseOne([fs EXCEPT !.errorHandling = ContinueOnError]),
                 ContinueOnError)

C21_Step ==
    /\ pc = "parsing"
        => \A t \in {TurnOfContinue(f)} :
              /\ ret' = t.ret
              /\ f'.mem = t.f.mem
              /\ f'.sets = t.f.sets
              /\ f'.out = t.f.out
              /\ t.ret = Nil => pc' = t.pc
              /\ t.ret # Nil => pc' = Surfaces(f.errorHandling)
    /\ pc \in {"done", "exited", "panicked"} => FALSE

\* C21: on every turn of Parse the error, the variables, the calls of Set
\* and the output are those of the same turn under ContinueOnError; when the
\* turn fails, Parse returns the error under ContinueOnError, the process
\* exits under ExitOnError and Parse panics with the error under
\* PanicOnError; and nothing is done after that.
C21_PolicyDecides == [][C21_Step]_vars

C21_Witness ==
    /\ pc = "exited"
    /\ prog = "grep"
    /\ pre.errorHandling = ExitOnError
    /\ arguments = << <<"-", "z", "5">>, <<"-", "i">> >>
    /\ ret.kind = "undefined"
    /\ f.mem["i"] = FALSE

----------------------------------------------------------------------------
(* C22: a cluster of one boolean-slice letter *)

\* the single-letter names of the []bool flags that may be clustered
SliceLetters(fs) ==
    {n \in Registered(fs) :
        /\ Len(n) = 1
        /\ FlagOf(fs, n).Value.kind = "boolSlice"
        /\ PosixShort \in FlagOf(fs, n).flags}

\* the text of k letters n
RECURSIVE Repeat(_, _)
Repeat(n, k) == IF k = 0 THEN <<>> ELSE n \o Repeat(n, k - 1)

\* k elements true
Trues(k) == [i \in 1..k |-> TRUE]

\* what k tokens -n, one after the other, leave
RECURSIVE Separately(_, _, _)
Separately(fs, n, k) ==
    IF k = 0 THEN fs
    ELSE Separately(parseOne([fs EXCEPT !.args = <<(<<"-">> \o n)>> \o @]).f,
                    n, k - 1)

C22_Step ==
    pc = "parsing" /\ f.args # <<>>
        => \A n \in SliceLetters(f) : \A k \in 1..Len(f.args[1]) :
              f.args[1] = <<"-">> \o Repeat(n, k)
                  => /\ ret' = Nil
                     /\ f'.mem[VarOf(f, n)] = f.mem[VarOf(f, n)] \o Trues(k)
                     /\ f'.args = Tail(f.args)
                     /\ \A s \in {Separately([f EXCEPT !.args = Tail(@)], n, k)} :
                           /\ f'.mem = s.mem
                           /\ f'.args = s.args

\* C22: where a []bool flag v carries PosixShort, a token made of k letters v
\* appends exactly k elements true to the slice, leaves what k separate
\* tokens -v leave, and does not take the token that follows it.
C22_ClusterOfSlice == [][C22_Step]_vars

C22_Witness ==
    /\ pc = "done" /\ prog = "verbose"
    /\ arguments = << <<"-", "v", "v", "v">>, <<"f", "a", "l", "s", "e">> >>
    /\ f.mem["v"] = <<TRUE, TRUE, TRUE>>
    /\ f.unkownArgs = << <<"f", "a", "l", "s", "e">> >>
    /\ ret = Nil

----------------------------------------------------------------------------
(* C23: the rendered default, handed back to Set *)

Restored == pc = "restored"

\* C23: for every adapter, scalar and slice, Set applied to the rendered
\* default text (DefValue) succeeds and leaves the variable with the
\* default it was given at registration.
C23_RoundTrip ==
    Restored => ret = Nil /\ f.mem["x"] = pre.mem["x"]

\* the same for the scalar adapters only
C23_RoundTripScalars ==
    Restored /\ reg[1].kind \in {"bool", "int", "string"}
        => ret = Nil /\ f.mem["x"] = pre.mem["x"]

\* what a slice adapter does with its own rendering: a string slice grows
\* by one element, the rendering itself; a boolean slice refuses it
C23_SliceGrows ==
    /\ Restored /\ reg[1].kind = "stringSlice"
        => ret = Nil /\ f.mem["x"] = Append(pre.mem["x"], arguments[1])
    /\ Restored /\ reg[1].kind = "boolSlice"
        => ret # Nil /\ f.mem["x"] = pre.mem["x"]

----------------------------------------------------------------------------
(* C24: Parse leaves the registry alone *)

\* the registry of a FlagSet: the three tables with the flags they hold
\* (name, bits, adapter), the POSIX switch and the policy
Registry(fs) ==
    [formal |-> fs.formal, shortLong |-> fs.shortLong, regex |-> fs.regex,
     openPosixShort |-> fs.openPosixShort, errorHandling |-> fs.errorHandling]

\* the fields of the FlagSet that parsing writes
ParseWrites ==
    {"mem", "actual", "args", "unkownArgs", "parsed", "out", "sets", "calls"}

C24_Step ==
    /\ Registry(f') = Registry(f)
    /\ \A field \in (DOMAIN f) \ ParseWrites : f'[field] = f[field]
    /\ DOMAIN f'.mem = DOMAIN f.mem

\* C24: no step of Parse, whether the call ends well or with an error,
\* changes the primary, alias or pattern table or the name, bits or adapter
\* of a registered flag; what changes is the bound variables, the seen set
\* and the argument lists (with the parsed mark and the output).
C24_RegistryKept == [][C24_Step]_vars

C24_Witness ==
    /\ pc = "done" /\ prog = "grep"
    /\ arguments = << <<"-", "i">>, <<"-", "z", "5">> >>
    /\ ret.kind = "undefined"
    /\ f.mem["i"] = TRUE /\ pre.mem["i"] = FALSE
    /\ Has(f.actual, <<"i">>)
    /\ Registry(f) = Registry(pre)

----------------------------------------------------------------------------
(* C25: a registration that fails *)

\* the registration call made last ended in a panic
Rejected == prog = "registration" /\ pc = "panicked"

\* C25: a registration call that panics leaves the three tables and the
\* POSIX switch of the FlagSet as they were before the call.
C25_FailedRegistration == Rejected => Registry(f) = Registry(pre)

\* a name that resolves after the rejected call resolved before it
C25_NoNameLeft ==
    Rejected => \A n \in DOMAIN f.shortLong : Has(pre.shortLong, n)

\* the rejected call did not turn the POSIX switch on
C25_SwitchKept == Rejected => f.openPosixShort = pre.openPosixShort

\* what a rejected call does leave alone: the primary table and the seen set
C25_PrimaryKept ==
    Rejected => f.formal = pre.formal /\ f.actual = pre.actual

----------------------------------------------------------------------------
(* C26: the seen set, Visit and NFlag *)

\* sortFlags(f.actual), as Visit hands it to its callback: for each entry of
\* the map, the flag found under the Name of the flag the entry holds, nil
\* where the map has no such key.  The order of the list is left out.
sortFlags(flags) ==
    [k \in DOMAIN flags |->
        IF Has(flags, flags[k].Name) THEN flags[flags[k].Name] ELSE NilFlag]

\* FlagSet.NFlag
NFlag(fs) == Cardinality(DOMAIN fs.actual)

\* the flags of the three tables
TableFlags(fs) == Range(fs.formal) \cup Range(fs.shortLong) \cup Range(fs.regex)

\* the variables of the registrations that were set
SetRegistrations(fs) == {fs.actual[k].Value.p : k \in DOMAIN fs.actual}

\* C26: every entry of f.actual is stored under the Name of its flag, Visit
\* hands only registered non-nil flags to its callback, and NFlag() is the
\* number of distinct registrations that were set.
C26_SeenSet ==
    /\ \A k \in DOMAIN f.actual : f.actual[k].Name = k
    /\ \A k \in DOMAIN f.actual :
          sortFlags(f.actual)[k] # NilFlag /\ sortFlags(f.actual)[k] \in TableFlags(f)
    /\ NFlag(f) = Cardinality(SetRegistrations(f))

\* the three parts, one at a time
C26_KeyIsName == \A k \in DOMAIN f.actual : f.actual[k].Name = k

C26_VisitNonNil == \A k \in DOMAIN f.actual : sortFlags(f.actual)[k] # NilFlag

C26_NFlag == NFlag(f) = Cardinality(SetRegistrations(f))

\* what holds of the seen set: its entries are flags of the tables
C26_SeenRegistered == \A k \in DOMAIN f.actual : f.actual[k] \in TableFlags(f)

\* the three parts for a program without a greedy flag, a pattern or an
\* alias
C26_SeenSetPlain ==
    prog \in {"parse", "grep", "ver", "again", "verbose"} => C26_SeenSet

----------------------------------------------------------------------------
(* C27: the bits in effect are the bits asked for *)

\* the registration calls of the program that bound variable p
CallsOf(p) == {i \in DOMAIN reg : reg[i].p = p}

\* the alias names of the OptOpt registrations
AliasTexts(p) ==
    UNION {Range(reg[i].Short) \cup Range(reg[i].Long) : i \in CallsOf(p)}

\* RegexKeyIsValue is on a flag of the tables only if its registration asked
\* for it, and the other bits are those asked for
C27_OnlyIfRequested ==
    \A flag \in TableFlags(f) : \A i \in CallsOf(flag.Value.p) :
        /\ RegexKeyIsValue \in flag.flags => RegexKeyIsValue \in reg[i].bits
        /\ flag.flags \ {RegexKeyIsValue, NotValue} = reg[i].bits \ {RegexKeyIsValue}

\* no call of Set is handed the text of an alias of the flag
C27_NeverAliasText ==
    \A k \in DOMAIN f.sets : f.sets[k].text \notin AliasTexts(f.sets[k].p)

\* C27: under every name of a flag the bits in effect are those set with
\* Flags: RegexKeyIsValue is in effect for a flag registered through OptOpt
\* only if it was asked for, and a match through a Short or Long alias never
\* hands the alias text to the adapter.
C27_BitsAsRequested == C27_OnlyIfRequested /\ C27_NeverAliasText

\* the same where the registration asked for RegexKeyIsValue or is not one
\* of OptOpt
C27_BitsWhereRequested == prog # "lines" => C27_BitsAsRequested

----------------------------------------------------------------------------
(* C28: the adapter rejects the text *)

\* the first token names a registered flag by its own name, the flag being
\* neither greedy nor one that stands for a fixed value or takes its name as
\* its value
NamesFlag(fs) ==
    /\ fs.args # <<>>
    /\ Dashed(fs.args[1])
    /\ NameOf(fs.args[1]) \in Registered(fs)
    /\ FlagOf(fs, NameOf(fs.args[1])).flags \cap
            {GreedyMode, NotValue, RegexKeyIsValue} = {}

\* the text the first token supplies to its flag: the inline value, or the
\* next token for a flag that is not boolean; <<>> in a 1-tuple where there
\* is none
SuppliedText(fs) ==
    LET t == fs.args[1]
        n == NameOf(t)
        flag == FlagOf(fs, n)
    IN  IF t \notin {<<"-">> \o n, <<"-", "-">> \o n}
            THEN << From(t, Len(t) - Len(parseNameValue(From(t, 1)).value)) >>
        ELSE IF flag.Value.kind \in {"bool", "boolSlice"} \/ Len(fs.args) < 2
            THEN <<>>
        ELSE << fs.args[2] >>

\* the adapter of the flag named by the first token rejects the text supplied
Rejects(fs) ==
    /\ NamesFlag(fs)
    /\ FlagOf(fs, NameOf(fs.args[1])).Value.kind # "boolSlice"
    /\ SuppliedText(fs) # <<>>
    /\ ~ValueSet(fs.mem, FlagOf(fs, NameOf(fs.args[1])).Value,
                 SuppliedText(fs)[1]).ok

InvalidKinds == {"invalid", "invalidbool", "invalidboolflag"}

\* the error is reported and the flag is not recorded for the token
C28_ReportedStep ==
    pc = "parsing" /\ Rejects(f)
        => /\ ret'.kind \in InvalidKinds
           /\ pc' = "done"
           /\ f'.actual = f.actual

\* the variable keeps the value it had before the token
C28_KeptStep ==
    pc = "parsing" /\ Rejects(f)
        => f'.mem[VarOf(f, NameOf(f.args[1]))] = f.mem[VarOf(f, NameOf(f.args[1]))]

\* C28: when the adapter of a flag rejects the text supplied, Parse reports
\* an invalid-value error, the flag is not recorded as seen for that token,
\* and the bound variable keeps the value it had before the token.
C28_Rejected == [][C28_ReportedStep /\ C28_KeptStep]_vars

C28_Reported == [][C28_ReportedStep]_vars

\* what the rejecting adapters leave in the variable: false, or what
\* strconv.ParseInt returned with its error
C28_Overwritten ==
    [][pc = "parsing" /\ Rejects(f)
        => f'.mem[VarOf(f, NameOf(f.args[1]))] =
              ValueSet(f.mem, FlagOf(f, NameOf(f.args[1])).Value,
                       SuppliedText(f)[1]).mem[VarOf(f, NameOf(f.args[1]))]]_vars

----------------------------------------------------------------------------
(* C29: no run-time panic *)

\* the errors that stand for a run-time panic
Crashes == {"nil pointer dereference", "index out of range"}

\* C29: no argument list makes FlagSet.Parse or ParentCommand.Parse end in
\* an out-of-range access or a nil dereference.
C29_NeverCrashes == ret.kind \notin Crashes

\* an argument list whose first token is not the empty string does not make
\* ParentCommand.Parse crash
C29_CrashesOnEmptyOnly ==
    ret.kind \in Crashes => arguments # <<>> /\ arguments[1] = <<>>

----------------------------------------------------------------------------
(* C30: Parse terminates *)

C30_Step ==
    pc = "parsing"
        => /\ pc' = "parsing" => Len(f'.args) < Len(f.args)
           /\ pc' # "parsing" => pc' = "done"
           /\ Len(f.args) <= Len(arguments)

\* C30: every turn of Parse's loop after which the loop goes on has removed
\* at least one token from f.args, which never holds more tokens than were
\* given, so that there are at most as many such turns as tokens; any other
\* turn ends the loop; and every call of Parse ends.
C30_Terminates == [][C30_Step]_vars /\ (pc = "parsing" ~> pc = "done")

\* the first part, for every program
C30_Progress == [][C30_Step]_vars

C30_Witness ==
    /\ pc = "done" /\ prog = "curl"
    /\ arguments = << <<"-", "H">>, <<"x">>, <<"y">>, <<"-", "c", "v">> >>
    /\ f.mem["H"] = << <<"x">>, <<"y">> >>
    /\ f.mem["c"] = TRUE /\ f.mem["v"] = TRUE
    /\ f.args = <<>> /\ ret = Nil
====
